---- MODULE Spec2Model ----
(***************************************************************************)
(* Model of the paged storage layer: the buffer pool (BufferPool.cpp), the *)
(* file registry (Database.cpp), page-granular file I/O (DbFile.cpp) and   *)
(* the heap file over heap pages (HeapFile.cpp, HeapPage.cpp).             *)
(*                                                                         *)
(* Every handler is a function from a state record to a state record, so   *)
(* that a handler calling another (getPage -> flushPage -> writePage) is   *)
(* the composition of the functions; an action applies one handler to the  *)
(* current state and installs the result.                                  *)
(***************************************************************************)
EXTENDS Integers, Sequences, FiniteSets, Bags, TLC

\* Number of frames of the pool, scaled down (a build-time setting).
DEFAULT_NUM_PAGES == 2
\* A heap file grows to at most MaxPage pages.
MaxPage == 2
\* Slots of a heap page (8*P / (8*T + 1) of a scaled-down page).
HeapCapacity == 2
\* Serialized tuples are 0 .. MaxTuple; 0 is a tuple whose bytes are all zero.
MaxTuple == 1
\* Slots of the heap page that is exercised on its own: two header bytes.
WideCapacity == 9
\* Keys of the tuples put into the B+-tree are 0 .. MaxKey.
MaxKey == 4
\* The other column of those tuples is 0 .. MaxVal.
MaxVal == 1
\* Leaf pages hold 1 .. MaxLeafCap tuples, depending on the schema.
MaxLeafCap == 2
\* Keys an index page holds (from the page size, scaled down).
IndexCapacity == 2
\* A B+-tree file grows to at most MaxTreePages pages.
MaxTreePages == 10
\* Bytes of a CHAR field (types.hpp, scaled down).
CHAR_SIZE == 2
\* A leaf or index page exercised on its own holds 1 .. MaxPageCap entries.
MaxPageCap == 3
\* Child page ids handed to IndexPage::insert are 0 .. MaxChild.
MaxChild == 2

FileNames == {"f", "g"}
\* Page numbers the direct callers of the pool ask for.
PageNums  == {0, 1}
PageIds   == [file : FileNames, page : PageNums]
Frames    == 0 .. (DEFAULT_NUM_PAGES - 1)
TupleVals == 0 .. MaxTuple
Slots     == 0 .. (HeapCapacity - 1)

\* PageId{}: the default-constructed page id (empty file name).
NoPid   == [file |-> "", page |-> 0]
NoFrame == DEFAULT_NUM_PAGES

\* Bytes of the bitmap in front of cap slots.
HeaderBytes(cap) == (cap + 7) \div 8

\* A zeroed page buffer seen through the heap layout of cap slots: the bytes
\* of the bitmap, then the slots.
ZeroOf(cap) == [header |-> [b \in 0 .. (HeaderBytes(cap) - 1) |-> 0],
                data   |-> [i \in 0 .. (cap - 1) |-> 0]]

ZeroPage == ZeroOf(HeapCapacity)
\* A page holding one tuple (value 1) in slot 0: bit 0x80 of header byte 0.
OnePage  == [header |-> [ZeroPage.header EXCEPT ![0] = 128],
             data   |-> [ZeroPage.data EXCEPT ![0] = 1]]
\* Contents a caller stores through a page reference in the pool-only runs.
PokeValues == {ZeroPage, OnePage}

VARIABLES
    files,        \* Database::files, the registered names
    disk,         \* backing file of each name: its pages, in order
    numPages,     \* DbFile::numPages of the file object registered under a name
    pid_to_pos,   \* BufferPool::pid_to_pos
    pos_to_pid,   \* BufferPool::pos_to_pid
    pos_to_lru,   \* BufferPool::pos_to_lru, the frames that own a list node
    lru_list,     \* BufferPool::lru_list, most recently used first
    dirty,        \* BufferPool::dirty
    available,    \* BufferPool::available, a stack (back = last element)
    pages,        \* BufferPool::pages
    io,           \* entries the last call appended to DbFile::reads / writes
    exc,          \* exception the last call ended with, or "none"
    ret,          \* frame of the page reference the caller holds, or NoFrame
    ub,           \* TRUE once a call has executed undefined behaviour
    useOrder,     \* history: page ids by their latest getPage call, latest first
    live,         \* history: bag of tuples inserted and not deleted, per file
    inserted,     \* history: the tuples inserted into a file, in call order
    hpage,        \* a page buffer under a HeapPage of WideCapacity slots
    hpOut,        \* what the last call on that HeapPage returned or threw
    hpLast,       \* history: per slot, the last insert or delete that hit it
    bt,           \* the pages of the B+-tree file, page id i at position i + 1
    leafCap,      \* LeafPage::capacity under the schema of the B+-tree file
    latest,       \* history: per key, the other column of its latest insert
    btEv,         \* history: what the last insertTuple on the tree went through
    lpage,        \* a page buffer under a LeafPage of lpCap tuples
    lpNew,        \* the page buffer handed to LeafPage::split as new_page
    lpCap,        \* LeafPage::capacity of the two, 0 before construction
    lpOut,        \* what the last call on the LeafPage returned or threw
    ipage,        \* a page buffer under an IndexPage of ipCap keys
    ipNew,        \* the page buffer handed to IndexPage::split as new_page
    ipCap,        \* IndexPage::capacity of the two, 0 before construction
    ipOut,        \* what the last call on the IndexPage returned
    tlen,         \* TupleDesc::length() the page layouts were computed for
    extent,       \* the capacities and byte extents of the three layouts
    codec,        \* the last TupleDesc::serialize call and what it left
    twin          \* two runs of the same heap-file calls: one frame, many frames

\* The state of the pool, the registry and the files.
poolVars == <<files, disk, numPages, pid_to_pos, pos_to_pid, pos_to_lru,
              lru_list, dirty, available, pages, io, exc, ret, ub>>

\* The heap page exercised on its own.
pageVars == <<hpage, hpOut, hpLast>>

\* The B+-tree file.
treeVars == <<bt, leafCap, latest, btEv>>

\* A leaf page and an index page exercised on their own.
leafVars == <<lpage, lpNew, lpCap, lpOut>>

indexVars == <<ipage, ipNew, ipCap, ipOut>>

\* The page layouts computed by the constructors.
layoutVars == <<tlen, extent>>

unitVars == <<leafVars, indexVars, layoutVars, codec, twin>>

vars == <<poolVars, useOrder, live, inserted, pageVars, treeVars, unitVars>>

\* The variables that the calls on the pool and the registry never touch.
others == <<inserted, pageVars, treeVars, unitVars>>

(***************************************************************************)
(* Helpers on sequences and maps                                           *)
(***************************************************************************)
Range(s) == {s[i] : i \in 1 .. Len(s)}

Front(s) == SubSeq(s, 1, Len(s) - 1)

Back(s) == s[Len(s)]

RemoveAll(s, x) == SelectSeq(s, LAMBDA y : y # x)

MapPut(m, k, v) == [x \in (DOMAIN m) \cup {k} |-> IF x = k THEN v ELSE m[x]]

MapErase(m, k) == [x \in (DOMAIN m) \ {k} |-> m[x]]

\* All orders in which the elements of a finite set can be enumerated.
Perms(S) == {s \in [1 .. Cardinality(S) -> S] : Range(s) = S}

(***************************************************************************)
(* The state record a handler works on                                     *)
(***************************************************************************)
St == [files |-> files, disk |-> disk, numPages |-> numPages,
       pid_to_pos |-> pid_to_pos, pos_to_pid |-> pos_to_pid,
       pos_to_lru |-> pos_to_lru, lru_list |-> lru_list, dirty |-> dirty,
       available |-> available, pages |-> pages,
       io |-> <<>>, exc |-> "none", ret |-> ret, ub |-> ub]

Install(s) ==
    /\ files' = s.files
    /\ disk' = s.disk
    /\ numPages' = s.numPages
    /\ pid_to_pos' = s.pid_to_pos
    /\ pos_to_pid' = s.pos_to_pid
    /\ pos_to_lru' = s.pos_to_lru
    /\ lru_list' = s.lru_list
    /\ dirty' = s.dirty
    /\ available' = s.available
    /\ pages' = s.pages
    /\ io' = s.io
    /\ exc' = s.exc
    /\ ret' = s.ret
    /\ ub' = s.ub

Throw(s, e) == [s EXCEPT !.exc = e]

(***************************************************************************)
(* DbFile: positional page I/O with the read / write audit                 *)
(***************************************************************************)
\* What pread returns for page id of a file, zero-padded past the end.
FilePage(d, id) == IF id < Len(d) THEN d[id + 1] ELSE ZeroPage

\* The file after pwrite of page id: holes before it read as zeros.
FileWith(d, id, page) ==
    [i \in 1 .. (IF id + 1 > Len(d) THEN id + 1 ELSE Len(d)) |->
        IF i = id + 1 THEN page ELSE IF i <= Len(d) THEN d[i] ELSE ZeroPage]

readPage(s, name, pos, id) ==
    [s EXCEPT !.io = Append(@, <<"read", name, id>>),
              !.pages[pos] = FilePage(s.disk[name], id)]

writePage(s, name, page, id) ==
    [s EXCEPT !.io = Append(@, <<"write", name, id, page>>),
              !.disk[name] = FileWith(@, id, page)]

(***************************************************************************)
(* BufferPool                                                              *)
(***************************************************************************)
contains(s, pid) == pid \in DOMAIN s.pid_to_pos

isDirty(s, pid) ==
    IF pid \notin DOMAIN s.pid_to_pos THEN FALSE
    ELSE s.pid_to_pos[pid] \in s.dirty

\* markDirty that also counts as a use of the page.
markDirty_touch(s, pid) ==
    IF pid \notin DOMAIN s.pid_to_pos THEN s
    ELSE LET pos == s.pid_to_pos[pid] IN
         [s EXCEPT !.dirty = @ \cup {pos},
                   !.lru_list = <<pos>> \o RemoveAll(@, pos)]

markDirty(s, pid) ==
    IF pid \notin DOMAIN s.pid_to_pos THEN s
    ELSE [s EXCEPT !.dirty = @ \cup {s.pid_to_pos[pid]}]

\* discardPage that forgets to return the frame to the free stack.
discardPage_leak(s, pid) ==
    IF pid \notin DOMAIN s.pid_to_pos THEN s
    ELSE LET pos == s.pid_to_pos[pid] IN
         [s EXCEPT !.pid_to_pos = MapErase(@, pid),
                   !.pos_to_pid[pos] = NoPid,
                   !.lru_list = IF pos \in s.pos_to_lru
                                THEN RemoveAll(@, pos) ELSE @,
                   !.pos_to_lru = @ \ {pos},
                   !.dirty = @ \ {pos},
                   !.ret = IF @ = pos THEN NoFrame ELSE @]

\* discardPage that leaves the frame in the dirty set.
discardPage_keepDirty(s, pid) ==
    IF pid \notin DOMAIN s.pid_to_pos THEN s
    ELSE LET pos == s.pid_to_pos[pid] IN
         [s EXCEPT !.pid_to_pos = MapErase(@, pid),
                   !.pos_to_pid[pos] = NoPid,
                   !.lru_list = IF pos \in s.pos_to_lru
                                THEN RemoveAll(@, pos) ELSE @,
                   !.pos_to_lru = @ \ {pos},
                   !.available = Append(@, pos),
                   !.ret = IF @ = pos THEN NoFrame ELSE @]

discardPage(s, pid) ==
    IF pid \notin DOMAIN s.pid_to_pos THEN s
    ELSE LET pos == s.pid_to_pos[pid] IN
         [s EXCEPT !.pid_to_pos = MapErase(@, pid),
                   !.pos_to_pid[pos] = NoPid,
                   !.lru_list = IF pos \in s.pos_to_lru
                                THEN RemoveAll(@, pos) ELSE @,
                   !.pos_to_lru = @ \ {pos},
                   !.dirty = @ \ {pos},
                   !.available = Append(@, pos),
                   !.ret = IF @ = pos THEN NoFrame ELSE @]

\* flushPage that forgets the page is dirty without writing it.
flushPage_noWrite(s, pid) ==
    IF pid \notin DOMAIN s.pid_to_pos THEN s
    ELSE [s EXCEPT !.dirty = @ \ {s.pid_to_pos[pid]}]

\* flushPage that writes the page but leaves it dirty.
flushPage_keepDirty(s, pid) ==
    IF pid \notin DOMAIN s.pid_to_pos THEN s
    ELSE LET pos == s.pid_to_pos[pid] IN
         IF pos \notin s.dirty THEN s
         ELSE IF pid.file \notin s.files THEN Throw(s, "out_of_range")
              ELSE writePage(s, pid.file, s.pages[pos], pid.page)

flushPage(s, pid) ==
    IF pid \notin DOMAIN s.pid_to_pos THEN s
    ELSE LET pos == s.pid_to_pos[pid] IN
         IF pos \notin s.dirty THEN s
         ELSE LET s1 == [s EXCEPT !.dirty = @ \ {pos}] IN
              IF pid.file \notin s1.files THEN Throw(s1, "out_of_range")
              ELSE writePage(s1, pid.file, s1.pages[pos], pid.page)

\* The second loop of flushFile: flushPage on each collected id, until one throws.
RECURSIVE flushEach(_, _)
flushEach(s, to_flush) ==
    IF to_flush = <<>> \/ s.exc # "none" THEN s
    ELSE flushEach(flushPage(s, Head(to_flush)), Tail(to_flush))

\* flushFile that flushes the dirty pages of every file.
flushFile_all(s, file, order) ==
    flushEach(s, [i \in 1 .. Len(order) |-> s.pos_to_pid[order[i]]])

\* order is the order in which the loop over the dirty container visits it.
flushFile(s, file, order) ==
    LET mine    == SelectSeq(order, LAMBDA pos : s.pos_to_pid[pos].file = file)
        to_flush == [i \in 1 .. Len(mine) |-> s.pos_to_pid[mine[i]]]
    IN  flushEach(s, to_flush)

\* Cached branch that does not move the frame to the front of the list.
getPageHit_noPromote(s, pid) ==
    [s EXCEPT !.ret = s.pid_to_pos[pid]]

\* Cached branch that reads the page from its file again.
getPageHit_reread(s, pid) ==
    LET pos == s.pid_to_pos[pid]
        s1  == readPage(s, pid.file, pos, pid.page)
    IN  [s1 EXCEPT !.lru_list = <<pos>> \o RemoveAll(@, pos), !.ret = pos]

\* getPage, the branch for a cached page.
getPageHit(s, pid) ==
    LET pos == s.pid_to_pos[pid] IN
    [s EXCEPT !.lru_list = IF pos \in s.pos_to_lru
                           THEN <<pos>> \o RemoveAll(@, pos) ELSE @,
              !.ret = pos]

\* Eviction that drops the victim without writing it back.
evict_noFlush(s) ==
    IF s.lru_list = <<>> THEN [s EXCEPT !.ub = TRUE]
    ELSE discardPage(s, s.pos_to_pid[Back(s.lru_list)])

\* getPage, the eviction block run when no frame is available.
evict(s) ==
    IF s.lru_list = <<>> THEN [s EXCEPT !.ub = TRUE]
    ELSE LET pos     == Back(s.lru_list)
             old_pid == s.pos_to_pid[pos]
         IN  IF old_pid.file = "" THEN s
             ELSE LET s1 == IF isDirty(s, old_pid) THEN flushPage(s, old_pid)
                            ELSE s
                  IN  IF s1.exc # "none" THEN s1 ELSE discardPage(s1, old_pid)

\* getPage, from taking a frame off the stack to installing the page.
getPageLoad(s, pid) ==
    IF s.available = <<>> THEN [s EXCEPT !.ub = TRUE, !.ret = NoFrame]
    ELSE LET pos == Back(s.available)
             s1  == [s EXCEPT !.available = Front(@), !.ret = NoFrame]
         IN  IF pid.file \notin s1.files THEN Throw(s1, "out_of_range")
             ELSE LET s2 == readPage(s1, pid.file, pos, pid.page) IN
                  [s2 EXCEPT !.pid_to_pos = MapPut(@, pid, pos),
                             !.pos_to_pid[pos] = pid,
                             !.lru_list = <<pos>> \o @,
                             !.pos_to_lru = @ \cup {pos},
                             !.ret = pos]

getPage(s, pid) ==
    IF contains(s, pid) THEN getPageHit(s, pid)
    ELSE LET s1 == IF s.available = <<>> THEN evict(s) ELSE s IN
         IF s1.exc # "none" \/ s1.ub THEN [s1 EXCEPT !.ret = NoFrame]
         ELSE getPageLoad(s1, pid)

(***************************************************************************)
(* Database: the registry of files by name                                 *)
(***************************************************************************)
\* remove(name): the map node is extracted first, then the file is flushed.
dbRemove(s, name, order) ==
    IF name \notin s.files THEN Throw(s, "logic_error")
    ELSE flushFile([s EXCEPT !.files = @ \ {name}], name, order)

\* add(file) for a file object just constructed over the backing file `name`
\* (its numPages was computed by the constructor, before add runs).
dbAdd(s, name, order) ==
    LET s1 == IF name \in s.files THEN dbRemove(s, name, order) ELSE s IN
    IF s1.exc # "none" THEN s1
    ELSE [s1 EXCEPT !.files = @ \cup {name},
                    !.numPages[name] = Len(s.disk[name])]

(***************************************************************************)
(* HeapPage: a bitmap of occupied slots, then the slots                    *)
(***************************************************************************)
Min(S) == CHOOSE x \in S : \A y \in S : x <= y

\* 0x80u >> (i & 7): the bit of slot i within its header byte, MSB first.
Mask(i) == 128 \div (2 ^ (i % 8))

\* header[i >> 3] & mask
BitSet(page, i) == (page.header[i \div 8] \div Mask(i)) % 2 = 1

hpOccupied(cap, page) == {i \in 0 .. (cap - 1) : BitSet(page, i)}

hpEnd(cap) == cap

hpBegin(cap, page) ==
    IF hpOccupied(cap, page) = {} THEN cap ELSE Min(hpOccupied(cap, page))

\* next() that starts looking two slots further on.
hpNext_skip(cap, page, slot) ==
    IF slot >= cap THEN cap
    ELSE LET later == {i \in hpOccupied(cap, page) : i > slot + 1} IN
         IF later = {} THEN cap ELSE Min(later)

hpNext(cap, page, slot) ==
    IF slot >= cap THEN cap
    ELSE LET later == {i \in hpOccupied(cap, page) : i > slot} IN
         IF later = {} THEN cap ELSE Min(later)

hpEmpty(cap, page, slot) ==
    IF slot >= cap THEN TRUE ELSE ~BitSet(page, slot)

\* insertTuple that takes the highest free slot.
hpInsertTuple_last(cap, page, t) ==
    LET free == (0 .. (cap - 1)) \ hpOccupied(cap, page)
        i    == CHOOSE x \in free : \A y \in free : y <= x
    IN  IF free = {} THEN [ok |-> FALSE, page |-> page]
        ELSE [ok |-> TRUE,
              page |-> [header |-> [page.header EXCEPT ![i \div 8] = @ + Mask(i)],
                        data   |-> [page.data EXCEPT ![i] = t]]]

hpInsertTuple(cap, page, t) ==
    LET free == (0 .. (cap - 1)) \ hpOccupied(cap, page)
        i    == Min(free)
    IN  IF free = {} THEN [ok |-> FALSE, page |-> page]
        ELSE [ok |-> TRUE,
              page |-> [header |-> [page.header EXCEPT ![i \div 8] = @ + Mask(i)],
                        data   |-> [page.data EXCEPT ![i] = t]]]

hpDeleteTuple(cap, page, slot) ==
    IF slot >= cap THEN [exc |-> "out_of_range", page |-> page]
    ELSE IF ~BitSet(page, slot) THEN [exc |-> "logic_error", page |-> page]
    ELSE [exc |-> "none",
          page |-> [header |-> [page.header EXCEPT ![slot \div 8] = @ - Mask(slot)],
                    data   |-> [page.data EXCEPT ![slot] = 0]]]

hpGetTuple(cap, page, slot) ==
    IF slot >= cap THEN [exc |-> "out_of_range", t |-> 0]
    ELSE IF ~BitSet(page, slot) THEN [exc |-> "logic_error", t |-> 0]
    ELSE [exc |-> "none", t |-> page.data[slot]]

(***************************************************************************)
(* HeapFile: a sequence of heap pages reached through the buffer pool      *)
(***************************************************************************)
\* DbFile::DbFile: a file object over the backing file, numPages = size / page.
Reopen(s, name) == [s EXCEPT !.numPages[name] = Len(s.disk[name])]

\* A fresh trailing page that the file's page count never takes in.
hfInsertNew_noGrow(s, name, t) ==
    LET new_pid == [file |-> name, page |-> s.numPages[name]]
        s2      == getPage(s, new_pid)
    IN  IF s2.exc # "none" \/ s2.ub THEN s2
        ELSE LET r == hpInsertTuple(HeapCapacity, s2.pages[s2.ret], t) IN
             IF ~r.ok THEN Throw(s2, "runtime_error")
             ELSE markDirty([s2 EXCEPT !.pages[s2.ret] = r.page], new_pid)

\* insertTuple, step 2: a fresh trailing page.
hfInsertNew(s, name, t) ==
    LET new_pid == [file |-> name, page |-> s.numPages[name]]
        s2      == getPage(s, new_pid)
    IN  IF s2.exc # "none" \/ s2.ub THEN s2
        ELSE LET r == hpInsertTuple(HeapCapacity, s2.pages[s2.ret], t) IN
             IF ~r.ok THEN Throw(s2, "runtime_error")
             ELSE [markDirty([s2 EXCEPT !.pages[s2.ret] = r.page], new_pid)
                      EXCEPT !.numPages[name] = @ + 1]

\* insertTuple that leaves the fresh trailing page clean.
hfInsertTuple_noMark(s, name, t) ==
    LET pid == [file |-> name, page |-> s.numPages[name] - 1]
        s1  == IF s.numPages[name] > 0 THEN getPage(s, pid) ELSE s
        r   == IF s.numPages[name] > 0 THEN hpInsertTuple(HeapCapacity, s1.pages[s1.ret], t)
               ELSE [ok |-> FALSE, page |-> ZeroPage]
    IN  IF s1.exc # "none" \/ s1.ub THEN s1
        ELSE IF r.ok THEN markDirty([s1 EXCEPT !.pages[s1.ret] = r.page], pid)
        ELSE LET s2 == hfInsertNew(s1, name, t) IN
             [s2 EXCEPT !.dirty = @ \ {s2.ret}]

\* insertTuple of a tuple compatible with the schema.
hfInsertTuple(s, name, t) ==
    LET pid == [file |-> name, page |-> s.numPages[name] - 1]
        s1  == IF s.numPages[name] > 0 THEN getPage(s, pid) ELSE s
        r   == IF s.numPages[name] > 0 THEN hpInsertTuple(HeapCapacity, s1.pages[s1.ret], t)
               ELSE [ok |-> FALSE, page |-> ZeroPage]
    IN  IF s1.exc # "none" \/ s1.ub THEN s1
        ELSE IF r.ok THEN markDirty([s1 EXCEPT !.pages[s1.ret] = r.page], pid)
        ELSE hfInsertNew(s1, name, t)

\* deleteTuple that leaves the page it changed clean.
hfDeleteTuple_noMark(s, name, it) ==
    IF it.page >= s.numPages[name] THEN Throw(s, "out_of_range")
    ELSE LET pid == [file |-> name, page |-> it.page]
             s1  == getPage(s, pid)
         IN  IF s1.exc # "none" \/ s1.ub THEN s1
             ELSE LET r == hpDeleteTuple(HeapCapacity, s1.pages[s1.ret], it.slot) IN
                  IF r.exc # "none" THEN Throw(s1, r.exc)
                  ELSE [s1 EXCEPT !.pages[s1.ret] = r.page]

hfDeleteTuple(s, name, it) ==
    IF it.page >= s.numPages[name] THEN Throw(s, "out_of_range")
    ELSE LET pid == [file |-> name, page |-> it.page]
             s1  == getPage(s, pid)
         IN  IF s1.exc # "none" \/ s1.ub THEN s1
             ELSE LET r == hpDeleteTuple(HeapCapacity, s1.pages[s1.ret], it.slot) IN
                  IF r.exc # "none" THEN Throw(s1, r.exc)
                  ELSE markDirty([s1 EXCEPT !.pages[s1.ret] = r.page], pid)

\* Result [s, t]: the state after the call and the tuple returned.
hfGetTuple(s, name, it) ==
    IF it.page >= s.numPages[name] THEN [s |-> Throw(s, "out_of_range"), t |-> 0]
    ELSE LET s1 == getPage(s, [file |-> name, page |-> it.page]) IN
         IF s1.exc # "none" \/ s1.ub THEN [s |-> s1, t |-> 0]
         ELSE LET r == hpGetTuple(HeapCapacity, s1.pages[s1.ret], it.slot) IN
              [s |-> IF r.exc # "none" THEN Throw(s1, r.exc) ELSE s1, t |-> r.t]

hfEnd(s, name) == [page |-> s.numPages[name], slot |-> 0]

\* The loop of begin() and of next(): the first occupied slot from page p on.
\* Result [s, it].
RECURSIVE hfFirstFrom(_, _, _)
hfFirstFrom(s, name, p) ==
    IF p >= s.numPages[name] THEN [s |-> s, it |-> hfEnd(s, name)]
    ELSE LET s1 == getPage(s, [file |-> name, page |-> p]) IN
         IF s1.exc # "none" \/ s1.ub THEN [s |-> s1, it |-> hfEnd(s, name)]
         ELSE LET b == hpBegin(HeapCapacity, s1.pages[s1.ret]) IN
              IF b # hpEnd(HeapCapacity) THEN [s |-> s1, it |-> [page |-> p, slot |-> b]]
              ELSE hfFirstFrom(s1, name, p + 1)

hfBegin(s, name) == hfFirstFrom(s, name, 0)

hfNext(s, name, it) ==
    IF it.page >= s.numPages[name] THEN [s |-> s, it |-> hfEnd(s, name)]
    ELSE LET s1 == getPage(s, [file |-> name, page |-> it.page]) IN
         IF s1.exc # "none" \/ s1.ub THEN [s |-> s1, it |-> hfEnd(s, name)]
         ELSE LET sl == hpNext(HeapCapacity, s1.pages[s1.ret], it.slot) IN
              IF sl # hpEnd(HeapCapacity)
              THEN [s |-> s1, it |-> [page |-> it.page, slot |-> sl]]
              ELSE hfFirstFrom(s1, name, it.page + 1)

\* getTuple and next from iterator it until end(): the tuples seen, in order.
RECURSIVE hfScanFrom(_, _, _, _)
hfScanFrom(s, name, it, acc) ==
    IF it = hfEnd(s, name) \/ s.exc # "none" \/ s.ub THEN acc
    ELSE LET g == hfGetTuple(s, name, it)
             n == hfNext(g.s, name, it)
         IN  hfScanFrom(n.s, name, n.it, Append(acc, g.t))

hfScan(s, name) ==
    LET b == hfBegin(s, name) IN hfScanFrom(b.s, name, b.it, <<>>)

(***************************************************************************)
(* LeafPage: next_leaf and size, then the tuples in ascending key order    *)
(***************************************************************************)
Keys == 0 .. MaxKey
Vals == 0 .. MaxVal
NoVal == MaxVal + 1

\* The tuples of the tree's schema: the INT key column and one more column.
TreeTuples == [key : Keys, val : Vals]

\* (size_t)-1 in next_leaf: no next leaf.
Absent == MaxTreePages + 1

\* A zeroed page under the leaf layout: next_leaf 0, size 0.
ZeroLeaf == [kind |-> "leaf", next_leaf |-> 0, tuples |-> <<>>]

\* The binary search of insertTuple: the first position whose key is >= k.
RECURSIVE lpLowerBound(_, _, _, _)
lpLowerBound(tuples, k, lo, hi) ==
    IF lo < hi
    THEN LET mid == (lo + hi) \div 2 IN
         IF tuples[mid + 1].key < k
         THEN lpLowerBound(tuples, k, mid + 1, hi)
         ELSE lpLowerBound(tuples, k, lo, mid)
    ELSE lo

\* Result [full, page]: the return value and the page afterwards.
lpInsertTuple_append(cap, page, t) ==
    LET n   == Len(page.tuples)
        pos == lpLowerBound(page.tuples, t.key, 0, n)
    IN  IF pos < n /\ page.tuples[pos + 1].key = t.key
        THEN [full |-> (n = cap),
              page |-> [page EXCEPT !.tuples[pos + 1] = t]]
        ELSE IF n >= cap THEN [full |-> TRUE, page |-> page]
        ELSE [full |-> (n + 1 = cap),
              page |-> [page EXCEPT !.tuples = Append(@, t)]]

lpInsertTuple(cap, page, t) ==
    LET n   == Len(page.tuples)
        pos == lpLowerBound(page.tuples, t.key, 0, n)
    IN  IF pos < n /\ page.tuples[pos + 1].key = t.key
        THEN [full |-> (n = cap),
              page |-> [page EXCEPT !.tuples[pos + 1] = t]]
        ELSE IF n >= cap THEN [full |-> TRUE, page |-> page]
        ELSE [full |-> (n + 1 = cap),
              page |-> [page EXCEPT !.tuples =
                          SubSeq(@, 1, pos) \o <<t>> \o SubSeq(@, pos + 1, n)]]

\* What the calls on the lone LeafPage report: insertTuple its return value
\* full, split its return value key or the exception it threw.
NoLeafCall == [op |-> "none", full |-> FALSE, key |-> 0, exc |-> "none"]

\* A split that leaves next_leaf of the new page as it was.
lpSplit_noNext(page, new_page) ==
    LET n   == Len(page.tuples)
        mid == n \div 2
    IN  IF n = 0
        THEN [exc |-> "logic_error", split_key |-> 0,
              page |-> page, new_page |-> new_page]
        ELSE [exc |-> "none", split_key |-> page.tuples[mid + 1].key,
              page |-> [page EXCEPT !.tuples = SubSeq(@, 1, mid)],
              new_page |-> [new_page EXCEPT
                              !.tuples = SubSeq(page.tuples, mid + 1, n)]]

\* Result [exc, split_key, page, new_page].
lpSplit(page, new_page) ==
    LET n   == Len(page.tuples)
        mid == n \div 2
    IN  IF n = 0
        THEN [exc |-> "logic_error", split_key |-> 0,
              page |-> page, new_page |-> new_page]
        ELSE [exc |-> "none", split_key |-> page.tuples[mid + 1].key,
              page |-> [page EXCEPT !.tuples = SubSeq(@, 1, mid)],
              new_page |-> [new_page EXCEPT
                              !.tuples = SubSeq(page.tuples, mid + 1, n),
                              !.next_leaf = page.next_leaf]]

(***************************************************************************)
(* IndexPage: size and index_children, then the keys and the children      *)
(***************************************************************************)
\* A zeroed page under the index layout: no key, children[0] = 0.
ZeroIndex ==
    [kind |-> "index", index_children |-> 0, keys |-> <<>>, children |-> <<0>>]

\* What the calls on the lone IndexPage report: insert its return value
\* full, split its return value key.
NoIndexCall == [op |-> "none", full |-> FALSE, key |-> 0]

\* The loop of insert: the first position whose key is >= key.
RECURSIVE ipPos(_, _, _)
ipPos(keys, key, pos) ==
    IF pos < Len(keys) /\ keys[pos + 1] < key THEN ipPos(keys, key, pos + 1)
    ELSE pos

\* An insert that puts the child to the left of the key.
ipInsert_left(cap, page, key, child) ==
    LET n   == Len(page.keys)
        pos == ipPos(page.keys, key, 0)
    IN  IF n >= cap THEN [full |-> TRUE, page |-> page]
        ELSE [full |-> (n + 1 = cap),
              page |-> [page EXCEPT
                  !.keys = SubSeq(@, 1, pos) \o <<key>> \o SubSeq(@, pos + 1, n),
                  !.children = SubSeq(@, 1, pos) \o <<child>>
                                  \o SubSeq(@, pos + 1, n + 1)]]

\* An insert that reports a full page only one call later.
ipInsert_late(cap, page, key, child) ==
    LET n   == Len(page.keys)
        pos == ipPos(page.keys, key, 0)
    IN  IF n >= cap THEN [full |-> TRUE, page |-> page]
        ELSE [full |-> FALSE,
              page |-> [page EXCEPT
                  !.keys = SubSeq(@, 1, pos) \o <<key>> \o SubSeq(@, pos + 1, n),
                  !.children = SubSeq(@, 1, pos + 1) \o <<child>>
                                  \o SubSeq(@, pos + 2, n + 1)]]

\* Result [full, page].
ipInsert(cap, page, key, child) ==
    LET n   == Len(page.keys)
        pos == ipPos(page.keys, key, 0)
    IN  IF n >= cap THEN [full |-> TRUE, page |-> page]
        ELSE [full |-> (n + 1 = cap),
              page |-> [page EXCEPT
                  !.keys = SubSeq(@, 1, pos) \o <<key>> \o SubSeq(@, pos + 1, n),
                  !.children = SubSeq(@, 1, pos + 1) \o <<child>>
                                  \o SubSeq(@, pos + 2, n + 1)]]

\* A split that leaves the flag of the new page as it was.
ipSplit_noFlag(page, new_page) ==
    LET n   == Len(page.keys)
        mid == n \div 2
    IN  [up_key |-> page.keys[mid + 1],
         page |-> [page EXCEPT !.keys = SubSeq(@, 1, mid),
                               !.children = SubSeq(@, 1, mid + 1)],
         new_page |-> [new_page EXCEPT
                         !.keys = SubSeq(page.keys, mid + 2, n),
                         !.children = SubSeq(page.children, mid + 2, n + 1)]]

\* Result [up_key, page, new_page].
ipSplit(page, new_page) ==
    LET n   == Len(page.keys)
        mid == n \div 2
    IN  [up_key |-> page.keys[mid + 1],
         page |-> [page EXCEPT !.keys = SubSeq(@, 1, mid),
                               !.children = SubSeq(@, 1, mid + 1)],
         new_page |-> [new_page EXCEPT
                         !.keys = SubSeq(page.keys, mid + 2, n),
                         !.children = SubSeq(page.children, mid + 2, n + 1),
                         !.index_children = page.index_children]]

(***************************************************************************)
(* BTreeFile: the root index page is page 0                                *)
(***************************************************************************)
root_id == 0

\* What an insertTuple went through: the number of pages it split (the
\* leaf, then index pages upwards), a root rebuild, a separator that was
\* already among the keys of the index page it was inserted into, a call
\* of IndexPage::insert on a page that had no room.
NoEvent == [splits |-> 0, rebuilt |-> FALSE, dup |-> FALSE, overfull |-> FALSE]

choose_child_slot(ip, key) ==
    Min({i \in 0 .. Len(ip.keys) : i = Len(ip.keys) \/ ip.keys[i + 1] > key})

\* Result [path, leaf]: the index pages passed with the child slot taken,
\* and the id of the leaf reached.
RECURSIVE descendFrom(_, _, _, _)
descendFrom(tree, key, id, path) ==
    LET ip    == tree[id + 1]
        c     == choose_child_slot(ip, key)
        path2 == Append(path, [page |-> id, slot |-> c])
    IN  IF ip.index_children = 0
        THEN [path |-> path2, leaf |-> ip.children[c + 1]]
        ELSE descendFrom(tree, key, ip.children[c + 1], path2)

descend_path(tree, key) == descendFrom(tree, key, root_id, <<>>)

\* The file after construction: the root without keys over one empty leaf.
ensure_root_initialized ==
    << [ZeroIndex EXCEPT !.children = <<1>>],
       [ZeroLeaf EXCEPT !.next_leaf = Absent] >>

\* A rebuild that leaves the old root's first child directly under page 0.
split_root_and_rebuild_flat(tree, up_key, new_id) ==
    [Append(tree, tree[root_id + 1]) EXCEPT
        ![root_id + 1] = [kind |-> "index", index_children |-> 1,
                          keys |-> <<up_key>>,
                          children |-> <<tree[root_id + 1].children[1],
                                         new_id>>]]

\* The root was split into page 0 and the page new_id: page 0 moves to a
\* new page and becomes the parent of the two.
split_root_and_rebuild(tree, up_key, new_id) ==
    [Append(tree, tree[root_id + 1]) EXCEPT
        ![root_id + 1] = [kind |-> "index", index_children |-> 1,
                          keys |-> <<up_key>>,
                          children |-> <<Len(tree), new_id>>]]

\* Upward propagation of (up_key, right_id) along the path, deepest first.
\* st is [tree, ev].
RECURSIVE index_insert_chain(_, _, _, _)
index_insert_chain(st, path, up_key, right_id) ==
    LET id     == Back(path).page
        ip     == st.tree[id + 1]
        ev     == [st.ev EXCEPT !.dup = @ \/ up_key \in Range(ip.keys),
                                !.overfull = @ \/ Len(ip.keys) >= IndexCapacity]
        r      == ipInsert(IndexCapacity, ip, up_key, right_id)
        new_id == Len(st.tree)
        sp     == ipSplit(r.page, ZeroIndex)
        tree2  == Append([st.tree EXCEPT ![id + 1] = sp.page], sp.new_page)
    IN  IF ~r.full
        THEN [tree |-> [st.tree EXCEPT ![id + 1] = r.page], ev |-> ev]
        ELSE IF id = root_id
        THEN [tree |-> split_root_and_rebuild(tree2, sp.up_key, new_id),
              ev   |-> [ev EXCEPT !.splits = @ + 1, !.rebuilt = TRUE]]
        ELSE index_insert_chain([tree |-> tree2,
                                 ev   |-> [ev EXCEPT !.splits = @ + 1]],
                                Front(path), sp.up_key, new_id)

\* Result [tree, ev].
btInsertTuple(tree, cap, t) ==
    LET d      == descend_path(tree, t.key)
        r      == lpInsertTuple(cap, tree[d.leaf + 1], t)
        stored == [tree EXCEPT ![d.leaf + 1] = r.page]
        new_id == Len(tree)
        sp     == lpSplit(r.page, ZeroLeaf)
        tree2  == Append([tree EXCEPT ![d.leaf + 1] =
                             [sp.page EXCEPT !.next_leaf = new_id]],
                         sp.new_page)
    IN  IF ~r.full THEN [tree |-> stored, ev |-> NoEvent]
        ELSE IF \E i \in 1 .. Len(r.page.tuples) : r.page.tuples[i].key = t.key
        THEN [tree |-> stored, ev |-> NoEvent]
        ELSE index_insert_chain([tree |-> tree2,
                                 ev   |-> [NoEvent EXCEPT !.splits = 1]],
                                d.path, sp.split_key, new_id)

\* The scan: the tuples of the leaves along next_leaf from the leftmost
\* leaf; it gives up after as many leaves as the file has pages.
RECURSIVE leftmost(_, _)
leftmost(tree, id) ==
    IF tree[id + 1].index_children = 0 THEN tree[id + 1].children[1]
    ELSE leftmost(tree, tree[id + 1].children[1])

RECURSIVE chainFrom(_, _, _)
chainFrom(tree, id, acc) ==
    IF id = Absent \/ Len(acc) > Len(tree) THEN acc
    ELSE chainFrom(tree, tree[id + 1].next_leaf, Append(acc, id))

\* The leaf ids in the order the scan passes them.
btChain(tree) == chainFrom(tree, leftmost(tree, root_id), <<>>)

RECURSIVE Concat(_)
Concat(seqs) == IF seqs = <<>> THEN <<>> ELSE seqs[1] \o Concat(Tail(seqs))

btScan(tree) ==
    LET chain == btChain(tree) IN
    Concat([i \in 1 .. Len(chain) |-> tree[chain[i] + 1].tuples])

(***************************************************************************)
(* The same heap files over a pool of one frame and over a pool that has a *)
(* frame for every page                                                    *)
(***************************************************************************)
\* Pages a heap file of the pair grows to: the second file stays at one page.
TwinMaxPage == [n \in FileNames |-> IF n = "f" THEN MaxPage ELSE 1]

\* Frames of the pool that never has to evict: one per page of the two files.
BigFrames == MaxPage + 1

\* BufferPool::BufferPool for n frames, the two files registered and empty.
PoolOf(n) ==
    [files |-> FileNames,
     disk |-> [f \in FileNames |-> <<>>],
     numPages |-> [f \in FileNames |-> 0],
     pid_to_pos |-> <<>>,
     pos_to_pid |-> [p \in 0 .. (n - 1) |-> NoPid],
     pos_to_lru |-> {},
     lru_list |-> <<>>,
     dirty |-> {},
     available |-> [i \in 1 .. n |-> n - i],
     pages |-> [p \in 0 .. (n - 1) |-> ZeroPage],
     io |-> <<>>, exc |-> "none", ret |-> NoFrame, ub |-> FALSE]

\* What the last call gave back to its caller over the two pools (the
\* exception it ended with and the value it returned), kept when the two
\* differ.
Differ(resOne, resBig) ==
    IF resOne = resBig THEN {} ELSE {[one |-> resOne, big |-> resBig]}

TwinInit == [one |-> PoolOf(1), big |-> PoolOf(BigFrames),
             op |-> "none", diff |-> {}]

(***************************************************************************)
(* Initial state: BufferPool::BufferPool, an empty registry is filled by   *)
(* Database::add of one file object per name over an empty backing file.   *)
(***************************************************************************)
(***************************************************************************)
(* Page layouts: what the three page constructors compute from the tuple   *)
(* length                                                                  *)
(***************************************************************************)
\* std::array<uint8_t, DEFAULT_PAGE_SIZE>
DEFAULT_PAGE_SIZE == 4096

\* A heap layout that forgets the header bit of each slot.
heapLayout_noHeader(T) ==
    LET capacity    == DEFAULT_PAGE_SIZE \div T
        headerBytes == (capacity + 7) \div 8
    IN  [capacity |-> capacity,
         data     |-> headerBytes,
         end      |-> headerBytes + capacity * T]

\* HeapPage: header bits, then the slots.
heapLayout(T) ==
    LET capacity    == (8 * DEFAULT_PAGE_SIZE) \div (8 * T + 1)
        headerBytes == (capacity + 7) \div 8
    IN  [capacity |-> capacity,
         data     |-> headerBytes,
         end      |-> headerBytes + capacity * T]

\* LeafPage: LeafPageHeader {size_t next_leaf; uint16_t size} of 16 bytes,
\* then the tuples; capacity is cut to uint16_t.
leafLayout(T) ==
    LET header   == 16
        capacity == ((DEFAULT_PAGE_SIZE - header) \div T) % 65536
    IN  [capacity |-> capacity,
         data     |-> header,
         end      |-> header + capacity * T]

\* IndexPage: IndexPageHeader {uint16_t size; uint8_t index_children} of 4
\* bytes, then capacity int32_t keys, then capacity + 1 size_t children.
indexLayout ==
    LET header == 4
        rem    == DEFAULT_PAGE_SIZE - header
        ksz    == 4
        csz    == 8
        cap    == IF rem > csz THEN (rem - csz) \div (ksz + csz) ELSE 0
        capacity == cap % 65536
    IN  [capacity |-> capacity,
         keys     |-> header,
         children |-> header + capacity * ksz,
         end      |-> header + capacity * ksz + (capacity + 1) * csz]

NoExtent == [heap |-> heapLayout(DEFAULT_PAGE_SIZE),
             leaf |-> leafLayout(DEFAULT_PAGE_SIZE),
             index |-> indexLayout]

(***************************************************************************)
(* TupleDesc::serialize and deserialize over a byte buffer.  A field is    *)
(* [type, v] with v a sequence: the int of an INT, the eight bytes of a     *)
(* DOUBLE, the characters of a CHAR string.                                *)
(***************************************************************************)
\* Tuple::field_type
field_type(tuple, i) == tuple[i].type

\* TupleDesc::compatible without the comparison of the field types.
compatible_sizeOnly(td, tuple) == Len(tuple) = Len(td)

\* TupleDesc::compatible
compatible(td, tuple) ==
    /\ Len(tuple) = Len(td)
    /\ \A i \in 1 .. Len(td) : field_type(tuple, i) = td[i]

INT_SIZE == 4

DOUBLE_SIZE == 8

\* The lambda size_of_fixed of the TupleDesc constructor.
size_of_fixed(type) ==
    CASE type = "INT" -> INT_SIZE
      [] type = "DOUBLE" -> DOUBLE_SIZE
      [] type = "CHAR" -> CHAR_SIZE

\* TupleDesc::offsets_[i] for the 1-based column i, and TupleDesc::length_.
RECURSIVE offset_of(_, _)
offset_of(td, i) ==
    IF i = 1 THEN 0 ELSE offset_of(td, i - 1) + size_of_fixed(td[i - 1])

tdLength(td) ==
    IF td = <<>> THEN 0 ELSE offset_of(td, Len(td)) + size_of_fixed(td[Len(td)])

\* memcpy of an int, little-endian two's complement, and back.
IntToBytes(v) ==
    LET u == IF v < 0 THEN (v + 2147483647) + 1 ELSE v
    IN  << u % 256, (u \div 256) % 256, (u \div 65536) % 256,
           (u \div 16777216) + (IF v < 0 THEN 128 ELSE 0) >>

BytesToInt(b) ==
    LET u == b[1] + 256 * b[2] + 65536 * b[3] + 16777216 * (b[4] % 128)
    IN  IF b[4] >= 128 THEN (u - 2147483647) - 1 ELSE u

Zeros(n) == [i \in 1 .. n |-> 0]

\* The bytes serialize writes for one field, without the padding of CHAR.
fieldBytes_noPad(type, v) ==
    CASE type = "INT" -> IntToBytes(v[1])
      [] type = "DOUBLE" -> v
      [] type = "CHAR" ->
            LET n == IF Len(v) > CHAR_SIZE THEN CHAR_SIZE ELSE Len(v)
            IN  SubSeq(v, 1, n)

\* The bytes serialize writes for one field.
fieldBytes(type, v) ==
    CASE type = "INT" -> IntToBytes(v[1])
      [] type = "DOUBLE" -> v
      [] type = "CHAR" ->
            LET n == IF Len(v) > CHAR_SIZE THEN CHAR_SIZE ELSE Len(v)
            IN  SubSeq(v, 1, n) \o Zeros(CHAR_SIZE - n)

\* data with bytes written from the 0-based offset off on.
WriteAt(data, off, bytes) ==
    [k \in 1 .. Len(data) |->
        IF k > off /\ k <= off + Len(bytes) THEN bytes[k - off] ELSE data[k]]

\* The loop of serialize over the columns i .. size; st is [data, written].
RECURSIVE serializeFrom(_, _, _, _)
serializeFrom(td, t, i, st) ==
    IF i > Len(td) THEN st
    ELSE LET bytes == fieldBytes(td[i], t[i].v)
             off   == offset_of(td, i)
         IN  serializeFrom(td, t, i + 1,
                 [data    |-> WriteAt(st.data, off, bytes),
                  written |-> st.written \cup (off .. (off + Len(bytes) - 1))])

\* TupleDesc::serialize into data.  Result [exc, data, written], written
\* being the offsets it stored to.
tdSerialize(td, data, t) ==
    IF ~compatible(td, t)
    THEN [exc |-> "logic_error", data |-> data, written |-> {}]
    ELSE LET st == serializeFrom(td, t, 1, [data |-> data, written |-> {}])
         IN  [exc |-> "none", data |-> st.data, written |-> st.written]

\* The CHAR case of deserialize: the characters up to the first NUL or
\* CHAR_SIZE.
RECURSIVE strnlen(_, _)
strnlen(csrc, len) ==
    IF len < CHAR_SIZE /\ csrc[len + 1] # 0 THEN strnlen(csrc, len + 1)
    ELSE len

\* TupleDesc::deserialize
deserialize(td, data) ==
    [i \in 1 .. Len(td) |->
        LET ptr == SubSeq(data, offset_of(td, i) + 1,
                          offset_of(td, i) + size_of_fixed(td[i]))
        IN  [type |-> td[i],
             v    |-> CASE td[i] = "INT" -> <<BytesToInt(ptr)>>
                        [] td[i] = "DOUBLE" -> ptr
                        [] td[i] = "CHAR" -> SubSeq(ptr, 1, strnlen(ptr, 0))]]

\* No serialize call yet.
NoCodec == [op |-> "none", td |-> <<>>, t |-> <<>>, exc |-> "none",
            before |-> <<>>, data |-> <<>>, written |-> {}, back |-> <<>>]

Init ==
    /\ files = FileNames
    /\ disk = [n \in FileNames |-> <<>>]
    /\ numPages = [n \in FileNames |-> 0]
    /\ pid_to_pos = <<>>
    /\ pos_to_pid = [p \in Frames |-> NoPid]
    /\ pos_to_lru = {}
    /\ lru_list = <<>>
    /\ dirty = {}
    /\ available = [i \in 1 .. DEFAULT_NUM_PAGES |-> DEFAULT_NUM_PAGES - i]
    /\ pages = [p \in Frames |-> ZeroPage]
    /\ io = <<>>
    /\ exc = "none"
    /\ ret = NoFrame
    /\ ub = FALSE
    /\ useOrder = <<>>
    /\ live = [n \in FileNames |-> [t \in TupleVals |-> 0]]
    /\ inserted = [n \in FileNames |-> <<>>]
    /\ hpage = ZeroOf(WideCapacity)
    /\ hpOut = "none"
    /\ hpLast = [i \in 0 .. (WideCapacity - 1) |-> [was |-> "never", t |-> 0]]
    /\ bt = <<>>
    /\ leafCap = 0
    /\ latest = [k \in Keys |-> NoVal]
    /\ btEv = NoEvent
    /\ lpage = ZeroLeaf
    /\ lpNew = ZeroLeaf
    /\ lpCap = 0
    /\ lpOut = NoLeafCall
    /\ ipage = ZeroIndex
    /\ ipNew = ZeroIndex
    /\ ipCap = 0
    /\ ipOut = NoIndexCall
    /\ tlen = 0
    /\ extent = NoExtent
    /\ codec = NoCodec
    /\ twin = TwinInit

(***************************************************************************)
(* Calls on the buffer pool                                                *)
(***************************************************************************)
GetPage(pid) ==
    /\ ~ub
    /\ Install(getPage(St, pid))
    /\ UNCHANGED <<useOrder, live, others>>

MarkDirty(pid) ==
    /\ ~ub
    /\ Install(markDirty(St, pid))
    /\ UNCHANGED <<useOrder, live, others>>

DiscardPage(pid) ==
    /\ ~ub
    /\ Install(discardPage(St, pid))
    /\ UNCHANGED <<useOrder, live, others>>

FlushPage(pid) ==
    /\ ~ub
    /\ Install(flushPage(St, pid))
    /\ UNCHANGED <<useOrder, live, others>>

FlushFile(file) ==
    /\ ~ub
    /\ \E order \in Perms(dirty) : Install(flushFile(St, file, order))
    /\ UNCHANGED <<useOrder, live, others>>

\* The caller stores through the page reference its last getPage returned.
PageWrite(v) ==
    /\ ~ub
    /\ ret # NoFrame
    /\ pages[ret] # v
    /\ pages' = [pages EXCEPT ![ret] = v]
    /\ io' = <<>>
    /\ exc' = "none"
    /\ UNCHANGED <<files, disk, numPages, pid_to_pos, pos_to_pid, pos_to_lru,
                   lru_list, dirty, available, ret, ub, useOrder, live, others>>

GetPageStep == \E pid \in PageIds : GetPage(pid)

MarkDirtyStep == \E pid \in PageIds : MarkDirty(pid)

DiscardPageStep == \E pid \in PageIds : DiscardPage(pid)

FlushPageStep == \E pid \in PageIds : FlushPage(pid)

FlushFileStep == \E file \in FileNames : FlushFile(file)

PageWriteStep == \E v \in PokeValues : PageWrite(v)

NextBP ==
    \/ GetPageStep
    \/ MarkDirtyStep
    \/ DiscardPageStep
    \/ FlushPageStep
    \/ FlushFileStep
    \/ PageWriteStep

SpecBP == Init /\ [][NextBP]_vars

(***************************************************************************)
(* The same calls with the history of getPage calls recorded: useOrder     *)
(* lists the page ids that getPage was called for and that were not        *)
(* discarded since, the latest call first.  Page contents stay zero.       *)
(***************************************************************************)
GetPageT(pid) ==
    /\ ~ub
    /\ Install(getPage(St, pid))
    /\ useOrder' = <<pid>> \o RemoveAll(useOrder, pid)
    /\ UNCHANGED <<live, others>>

DiscardPageT(pid) ==
    /\ ~ub
    /\ Install(discardPage(St, pid))
    /\ useOrder' = RemoveAll(useOrder, pid)
    /\ UNCHANGED <<live, others>>

GetPageTStep == \E pid \in PageIds : GetPageT(pid)

DiscardPageTStep == \E pid \in PageIds : DiscardPageT(pid)

NextLRU ==
    \/ GetPageTStep
    \/ DiscardPageTStep
    \/ MarkDirtyStep
    \/ FlushPageStep
    \/ FlushFileStep

SpecLRU == Init /\ [][NextLRU]_vars

(***************************************************************************)
(* Properties of the buffer pool                                           *)
(***************************************************************************)
Resident == {pid_to_pos[pid] : pid \in DOMAIN pid_to_pos}

\* C1: after any sequence of successful getPage, markDirty, discardPage,
\* flushPage and flushFile calls, pid_to_pos and pos_to_pid are mutual
\* inverses on the resident frames, every dirty frame is resident, the LRU
\* list holds each resident frame exactly once and no other frame, and the
\* resident frames and the free frames together are the N frames.
C1_PoolConsistent ==
    /\ \A pid \in DOMAIN pid_to_pos :
          /\ pid_to_pos[pid] \in Frames
          /\ pos_to_pid[pid_to_pos[pid]] = pid
    /\ \A pos \in Frames :
          pos_to_pid[pos] # NoPid =>
             /\ pos_to_pid[pos] \in DOMAIN pid_to_pos
             /\ pid_to_pos[pos_to_pid[pos]] = pos
    /\ dirty \subseteq Resident
    /\ Range(lru_list) = Resident
    /\ Len(lru_list) = Cardinality(Resident)
    /\ Cardinality(Resident) + Len(available) = DEFAULT_NUM_PAGES
    /\ Cardinality(Range(available)) = Len(available)
    /\ Range(available) \cap Resident = {}

\* A full pool with a dirty frame, right after a getPage that wrote back the
\* page it evicted and loaded another into the frame.
C1_Witness ==
    /\ available = <<>>
    /\ dirty # {}
    /\ Len(io) = 2
    /\ io[1][1] = "write"
    /\ io[2][1] = "read"

\* The pool's maps, list, free stack and frame contents are left alone.
PoolKept == UNCHANGED <<pid_to_pos, pos_to_pid, pos_to_lru, lru_list, available, pages>>

\* Resident page ids in the order of their latest getPage call, latest first.
ByUse == SelectSeq(useOrder, LAMBDA q : q \in DOMAIN pid_to_pos)

\* Resident page ids in the order of the LRU list.
ByList == [i \in 1 .. Len(lru_list) |-> pos_to_pid[lru_list[i]]]

C2_Effect(pid) ==
    LET res      == DOMAIN pid_to_pos
        resAfter == DOMAIN pid_to_pos'
    IN  /\ exc' = "none"
        /\ pid \in resAfter
        /\ pos_to_pid'[lru_list'[1]] = pid
        /\ ByList' = ByUse'
        /\ IF pid \in res THEN resAfter = res
           ELSE IF available # <<>> THEN resAfter = res \cup {pid}
           ELSE resAfter = (res \ {Back(ByUse)}) \cup {pid}

\* C2: a getPage of an uncached page with no free frame evicts exactly one
\* resident page, the one whose latest getPage call is the oldest, dirty or
\* not; every getPage makes its page the most recently used; with a free
\* frame nothing is evicted.
C2_StrictLRU == [][\A pid \in PageIds : GetPageT(pid) => C2_Effect(pid)]_vars

\* A getPage has just evicted a dirty page (written back, then the read).
C2_Witness ==
    /\ Len(useOrder) > DEFAULT_NUM_PAGES
    /\ Len(io) = 2
    /\ io[1][1] = "write"
    /\ io[2] = <<"read", useOrder[1].file, useOrder[1].page>>

C3_Effect(pid) ==
    (pid \notin DOMAIN pid_to_pos /\ available = <<>>) =>
        LET gone == (DOMAIN pid_to_pos) \ (DOMAIN pid_to_pos') IN
        /\ Cardinality(gone) = 1
        /\ LET q   == CHOOSE x \in gone : TRUE
               pos == pid_to_pos[q]
           IN  IF pos \in dirty
               THEN /\ io' = << <<"write", q.file, q.page, pages[pos]>>,
                               <<"read", pid.file, pid.page>> >>
                    /\ pid_to_pos'[pid] = pos
                    /\ Len(disk'[q.file]) > q.page
                    /\ disk'[q.file][q.page + 1] = pages[pos]
               ELSE /\ io' = << <<"read", pid.file, pid.page>> >>
                    /\ disk' = disk

\* C3: when getPage evicts a dirty page q, exactly one writePage with q's
\* frame contents goes to q's file at q's page number, before the readPage
\* that loads the requested page into that frame; a clean victim is not
\* written.
C3_WriteBack == [][\A pid \in PageIds : GetPage(pid) => C3_Effect(pid)]_vars

\* An eviction has just written back a page the caller had changed.
C3_Witness ==
    /\ Len(io) = 2
    /\ io[1][1] = "write"
    /\ io[1][4] # ZeroPage
    /\ io[2][1] = "read"

C4_Effect(pid) ==
    /\ pid \in DOMAIN pid_to_pos =>
          /\ io' = <<>>
          /\ ret' = pid_to_pos[pid]
          /\ pid_to_pos' = pid_to_pos
          /\ pages' = pages
    /\ pid \notin DOMAIN pid_to_pos =>
          /\ SelectSeq(io', LAMBDA e : e[1] = "read")
                = << <<"read", pid.file, pid.page>> >>
          /\ ret' = pid_to_pos'[pid]
    /\ \A i \in 1 .. Len(useOrder') :
          i > DEFAULT_NUM_PAGES => useOrder'[i] \notin DOMAIN pid_to_pos'

\* C4: getPage of a cached page reads nothing and returns the frame that
\* holds it; getPage of an uncached page issues exactly one readPage of
\* that page on its file.  A page with N or more distinct pages touched
\* after it is no longer contained, so its next access is such a read.
C4_ReadOnMiss == [][\A pid \in PageIds : GetPageT(pid) => C4_Effect(pid)]_vars

\* N+1 pages touched, the oldest is out, and the page just read is the last
\* page of its file: it was written back earlier and is being read again.
C4_Witness ==
    /\ Len(useOrder) = DEFAULT_NUM_PAGES + 1
    /\ useOrder[DEFAULT_NUM_PAGES + 1] \notin DOMAIN pid_to_pos
    /\ io = << <<"read", useOrder[1].file, useOrder[1].page>> >>
    /\ Len(disk[useOrder[1].file]) = useOrder[1].page + 1

C5_Effect(pid) ==
    /\ IF pid \in DOMAIN pid_to_pos /\ pid_to_pos[pid] \in dirty
       THEN LET pos == pid_to_pos[pid] IN
            /\ io' = << <<"write", pid.file, pid.page, pages[pos]>> >>
            /\ dirty' = dirty \ {pos}
            /\ Len(disk'[pid.file]) > pid.page
            /\ disk'[pid.file][pid.page + 1] = pages[pos]
            /\ \A n \in FileNames \ {pid.file} : disk'[n] = disk[n]
            /\ PoolKept
       ELSE /\ io' = <<>>
            /\ UNCHANGED <<dirty, disk>>
            /\ PoolKept
    /\ exc' = "none"
    /\ flushPage(flushPage(St, pid), pid) = flushPage(St, pid)

\* C5: flushPage of a cached dirty page issues exactly one writePage of it
\* and leaves it cached and clean; on a clean or uncached page it writes
\* nothing and changes nothing; two calls in a row equal one.
C5_FlushPage == [][\A pid \in PageIds : FlushPage(pid) => C5_Effect(pid)]_vars

\* A changed page has just been written and is still cached, now clean.
C5_Witness ==
    /\ Len(io) = 1
    /\ io[1][1] = "write"
    /\ io[1][4] # ZeroPage
    /\ \E pid \in DOMAIN pid_to_pos :
          /\ io[1] = <<"write", pid.file, pid.page, pages[pid_to_pos[pid]]>>
          /\ pid_to_pos[pid] \notin dirty

C6_Effect(name) ==
    LET mine == {pid \in DOMAIN pid_to_pos :
                    pid.file = name /\ pid_to_pos[pid] \in dirty}
    IN  /\ Len(io') = Cardinality(mine)
        /\ Range(io') = {<<"write", pid.file, pid.page, pages[pid_to_pos[pid]]>> :
                            pid \in mine}
        /\ dirty' = dirty \ {pid_to_pos[pid] : pid \in mine}
        /\ \A pid \in mine :
              /\ Len(disk'[name]) > pid.page
              /\ disk'[name][pid.page + 1] = pages[pid_to_pos[pid]]
        /\ \A n \in FileNames \ {name} : disk'[n] = disk[n]
        /\ exc' = "none"
        /\ PoolKept

\* C6: flushFile(name) writes every cached dirty page of that file exactly
\* once and leaves none of them dirty; it neither writes nor cleans a page
\* of another file, and changes neither the resident set nor the LRU order.
C6_FlushFile == [][\A name \in FileNames : FlushFile(name) => C6_Effect(name)]_vars

\* One call has just written two pages of one file.
C6_Witness ==
    /\ Len(io) = 2
    /\ io[1][1] = "write"
    /\ io[2][1] = "write"
    /\ io[1][2] = io[2][2]
    /\ io[1][3] # io[2][3]

C7_Effect(pid) ==
    IF pid \in DOMAIN pid_to_pos
    THEN LET pos == pid_to_pos[pid] IN
         /\ io' = <<>>
         /\ disk' = disk
         /\ DOMAIN pid_to_pos' = (DOMAIN pid_to_pos) \ {pid}
         /\ \A q \in DOMAIN pid_to_pos' : pid_to_pos'[q] = pid_to_pos[q]
         /\ lru_list' = SelectSeq(lru_list, LAMBDA x : x # pos)
         /\ dirty' = dirty \ {pos}
         /\ Range(available') = Range(available) \cup {pos}
         /\ Len(available') = Len(available) + 1
         /\ pages' = pages
    ELSE /\ io' = <<>>
         /\ UNCHANGED <<dirty, disk>>
         /\ PoolKept

\* C7: discardPage of a cached page writes nothing even if the page is
\* dirty, removes it from the resident set, the LRU order and the dirty set
\* and frees its frame, and a page loaded later starts clean; discardPage of
\* an uncached page changes nothing.
C7_DiscardPage ==
    [][/\ \A pid \in PageIds : DiscardPage(pid) => C7_Effect(pid)
       /\ \A pid \in PageIds :
             (GetPage(pid) /\ pid \notin DOMAIN pid_to_pos) =>
                 pid_to_pos'[pid] \notin dirty']_vars

\* A frame is free while it holds changed bytes that never reached a file:
\* its page was discarded, not evicted.
C7_Witness ==
    /\ \E pos \in Range(available) : pages[pos] # ZeroPage
    /\ \A n \in FileNames : disk[n] = <<>>
    /\ dirty = {}
    /\ io = <<>>

C8_Effect(pid) ==
    /\ io' = <<>>
    /\ disk' = disk
    /\ PoolKept
    /\ IF pid \in DOMAIN pid_to_pos
       THEN dirty' = dirty \cup {pid_to_pos[pid]}
       ELSE dirty' = dirty

\* C8: markDirty of an uncached page changes no pool state; of a cached
\* page it only makes that page dirty: resident set, free frames and LRU
\* order stay as they were.
C8_MarkDirty == [][\A pid \in PageIds : MarkDirty(pid) => C8_Effect(pid)]_vars

\* The least recently used page is the only dirty one: marking it did not
\* move it.
C8_Witness ==
    /\ Len(lru_list) = DEFAULT_NUM_PAGES
    /\ dirty = {Back(lru_list)}
    /\ io = <<>>

(***************************************************************************)
(* The registry together with the pool                                     *)
(***************************************************************************)
DbAdd(name) ==
    /\ ~ub
    /\ \E order \in Perms(dirty) : Install(dbAdd(St, name, order))
    /\ UNCHANGED <<useOrder, live, others>>

DbRemove(name) ==
    /\ ~ub
    /\ \E order \in Perms(dirty) : Install(dbRemove(St, name, order))
    /\ UNCHANGED <<useOrder, live, others>>

DbAddStep == \E name \in FileNames : DbAdd(name)

DbRemoveStep == \E name \in FileNames : DbRemove(name)

NextDB ==
    \/ GetPageStep
    \/ MarkDirtyStep
    \/ DbAddStep
    \/ DbRemoveStep

SpecDB == Init /\ [][NextDB]_vars

\* The cached dirty pages of a file.
DirtyOf(name) ==
    {pid \in DOMAIN pid_to_pos : pid.file = name /\ pid_to_pos[pid] \in dirty}

\* What C9 says a flush of the file `name` inside add / remove does.
C9_Flushed(name) ==
    /\ exc' = "none"
    /\ Range(io') = {<<"write", pid.file, pid.page, pages[pid_to_pos[pid]]>> :
                        pid \in DirtyOf(name)}
    /\ \A pid \in DirtyOf(name) : pid_to_pos[pid] \notin dirty'

\* C9: Database.add of a name that is already registered, while the old file
\* has dirty pages in the pool, writes those pages to the old file and then
\* registers the new file, without error; Database.remove(name) flushes the
\* file's dirty pages and returns the file.
C9_AddRemoveFlush ==
    [][\A name \in FileNames :
          /\ (DbAdd(name) /\ name \in files) =>
                (C9_Flushed(name) /\ name \in files')
          /\ (DbRemove(name) /\ name \in files) =>
                (C9_Flushed(name) /\ name \notin files')]_vars

(***************************************************************************)
(* A heap file and another user of the same pool                           *)
(***************************************************************************)
HeapFiles == {"f"}

\* The page a getPage of pid would return: the cached frame, else the file.
PageView(pid) ==
    IF pid \in DOMAIN pid_to_pos THEN pages[pid_to_pos[pid]]
    ELSE FilePage(disk[pid.file], pid.page)

InsertTuple(name, t) ==
    /\ ~ub
    /\ LET s1 == hfInsertTuple(St, name, t) IN
       /\ s1.numPages[name] <= MaxPage
       /\ Install([s1 EXCEPT !.ret = NoFrame])
       /\ live' = IF s1.exc = "none"
                  THEN [live EXCEPT ![name][t] = @ + 1] ELSE live
    /\ UNCHANGED <<useOrder, others>>

DeleteTuple(name, it) ==
    /\ ~ub
    /\ LET s1  == hfDeleteTuple(St, name, it)
           old == PageView([file |-> name, page |-> it.page]).data[it.slot]
       IN  /\ Install([s1 EXCEPT !.ret = NoFrame])
           /\ live' = IF s1.exc = "none"
                      THEN [live EXCEPT ![name][old] = @ - 1] ELSE live
    /\ UNCHANGED <<useOrder, others>>

InsertTupleStep == \E name \in HeapFiles, t \in TupleVals : InsertTuple(name, t)

DeleteTupleStep ==
    \E name \in HeapFiles, p \in 0 .. MaxPage, sl \in 0 .. HeapCapacity :
        DeleteTuple(name, [page |-> p, slot |-> sl])

HeapFlushStep == \E name \in HeapFiles : FlushFile(name)

\* Another user of the pool touches pages of a file that is no heap file.
OtherGetStep == \E pid \in PageIds : pid.file \notin HeapFiles /\ GetPage(pid)

NextHF ==
    \/ InsertTupleStep
    \/ DeleteTupleStep
    \/ HeapFlushStep
    \/ OtherGetStep

SpecHF == Init /\ [][NextHF]_vars

\* How often each tuple occurs in a sequence of tuples.
Counts(seq) ==
    [t \in TupleVals |-> Cardinality({i \in 1 .. Len(seq) : seq[i] = t})]

\* The tuples a scan returns after the file is opened again.
ReopenedScan(name) == Counts(hfScan(Reopen(St, name), name))

\* C10 as claimed: after any sequence of insertTuple, deleteTuple and
\* flushFile calls, reopening the heap file and iterating yields exactly the
\* tuples inserted and not deleted.
C10_ReopenAlways == \A name \in HeapFiles : ReopenedScan(name) = live[name]

\* C10 as amended: the same, for the states in which no page of the file is
\* dirty in the buffer pool (such as right after flushFile).
C10_ReopenFlushed ==
    \A name \in HeapFiles :
        DirtyOf(name) = {} => ReopenedScan(name) = live[name]

\* Two pages are in the file, slot 0 of page 0 was deleted after slot 1 was
\* filled, tuples remain, and nothing of the file is dirty.
C10_Witness ==
    /\ numPages["f"] = 2
    /\ Len(disk["f"]) = 2
    /\ hpOccupied(HeapCapacity, disk["f"][1]) = {1}
    /\ DirtyOf("f") = {}
    /\ live["f"][1] > 0

(***************************************************************************)
(* A heap file that is only inserted into, with the calls recorded         *)
(***************************************************************************)
\* The schema of the heap file: TupleDesc::types_, one INT column.
FileSchema == <<"INT">>

\* A field is a value of one of the types; v is its serialized form.
Fields == [type : {"INT", "DOUBLE"}, v : TupleVals]

\* The tuples a caller passes: no field, one field, or two INT fields.
Tuples ==
    {<<>>} \cup {<<f>> : f \in Fields}
           \cup {<<f, f>> : f \in {g \in Fields : g.type = "INT"}}

\* TupleDesc::serialize of a tuple of the one-column schema.
serialize(tuple) == tuple[1].v

\* HeapFile::insertTuple of any tuple: the schema check, then the insertion.
hfInsertTupleChecked(s, name, tuple) ==
    IF ~compatible(FileSchema, tuple) THEN Throw(s, "logic_error")
    ELSE hfInsertTuple(s, name, serialize(tuple))

InsertTupleT(name, tuple) ==
    /\ ~ub
    /\ LET s1 == hfInsertTupleChecked(St, name, tuple) IN
       /\ s1.numPages[name] <= MaxPage
       /\ Install([s1 EXCEPT !.ret = NoFrame])
       /\ inserted' = IF s1.exc = "none"
                      THEN [inserted EXCEPT ![name] = Append(@, serialize(tuple))]
                      ELSE inserted
    /\ UNCHANGED <<useOrder, live, pageVars, treeVars, unitVars>>

InsertTupleTStep ==
    \E name \in HeapFiles, tuple \in Tuples : InsertTupleT(name, tuple)

NextHI ==
    \/ InsertTupleTStep
    \/ HeapFlushStep
    \/ OtherGetStep

SpecHI == Init /\ [][NextHI]_vars

\* The tuple has the wrong field count or a field of the wrong type.
Mismatch(tuple) ==
    \/ Len(tuple) # Len(FileSchema)
    \/ \E i \in 1 .. Len(FileSchema) : tuple[i].type # FileSchema[i]

\* The file has no page, or its last page has no free slot.
LastPageFull(name) ==
    \/ numPages[name] = 0
    \/ hpOccupied(HeapCapacity,
                  PageView([file |-> name, page |-> numPages[name] - 1])) = Slots

C11_Effect(name) ==
    /\ exc' = "none"
    /\ numPages'[name] =
          IF LastPageFull(name) THEN numPages[name] + 1 ELSE numPages[name]

\* C11: for a heap file on which only insertTuple has been called, iterating
\* from begin() with next() until end() returns all inserted tuples in
\* insertion order; an insertTuple increases numPages by exactly one when
\* the file has no pages or its last page has no free slot and leaves it
\* unchanged otherwise; numPages never decreases.
C11_InsertOrder ==
    /\ [](\A name \in HeapFiles : hfScan(St, name) = inserted[name])
    /\ [][/\ \A name \in HeapFiles, tuple \in Tuples :
                (~Mismatch(tuple) /\ InsertTupleT(name, tuple)) =>
                    C11_Effect(name)
          /\ \A name \in FileNames : numPages'[name] >= numPages[name]]_vars

\* The insert after the first page filled up opened a second page, and the
\* first page is no longer cached: the iteration reads it from the file.
C11_Witness ==
    /\ Len(inserted["f"]) = HeapCapacity + 1
    /\ numPages["f"] = 2
    /\ [file |-> "f", page |-> 0] \notin DOMAIN pid_to_pos
    /\ hfScan(St, "f") = inserted["f"]

\* C13: insertTuple with a tuple that is not compatible with the file's
\* schema (wrong field count or a field of the wrong type) fails with an
\* error before any mutation: numPages, every page's contents, the pool's
\* resident set, dirty set and LRU order, and the read/write audit are all
\* unchanged.
C13_RejectedFirst ==
    [][\A name \in HeapFiles, tuple \in Tuples :
          (Mismatch(tuple) /\ InsertTupleT(name, tuple)) =>
              /\ exc' = "logic_error"
              /\ io' = <<>>
              /\ UNCHANGED <<files, disk, numPages, pid_to_pos, pos_to_pid,
                             pos_to_lru, lru_list, dirty, available, pages,
                             inserted>>]_vars

\* An incompatible tuple was just rejected by a file of two pages of which
\* one is cached and dirty.
C13_Witness ==
    /\ exc = "logic_error"
    /\ numPages["f"] = 2
    /\ dirty # {}
    /\ Len(inserted["f"]) = HeapCapacity + 1

(***************************************************************************)
(* A heap page on its own                                                  *)
(***************************************************************************)
WideSlots == 0 .. (WideCapacity - 1)

HpInsertTuple(t) ==
    LET r == hpInsertTuple(WideCapacity, hpage, t) IN
    /\ hpage' = r.page
    /\ hpOut' = IF r.ok THEN "true" ELSE "false"
    /\ hpLast' = [i \in WideSlots |->
                    IF i \in hpOccupied(WideCapacity, r.page)
                             \ hpOccupied(WideCapacity, hpage)
                    THEN [was |-> "inserted", t |-> t] ELSE hpLast[i]]
    /\ UNCHANGED <<poolVars, useOrder, live, inserted, treeVars, unitVars>>

HpDeleteTuple(slot) ==
    LET r == hpDeleteTuple(WideCapacity, hpage, slot) IN
    /\ hpage' = r.page
    /\ hpOut' = r.exc
    /\ hpLast' = IF r.exc = "none"
                 THEN [hpLast EXCEPT ![slot] = [was |-> "deleted", t |-> 0]]
                 ELSE hpLast
    /\ UNCHANGED <<poolVars, useOrder, live, inserted, treeVars, unitVars>>

HpInsertTupleStep == \E t \in TupleVals : HpInsertTuple(t)

HpDeleteTupleStep == \E slot \in 0 .. WideCapacity : HpDeleteTuple(slot)

NextHP ==
    \/ HpInsertTupleStep
    \/ HpDeleteTupleStep

SpecHP == Init /\ [][NextHP]_vars

\* begin(), then next() until end(): the slots visited, in order.
RECURSIVE hpWalkFrom(_, _, _, _)
hpWalkFrom(cap, page, slot, acc) ==
    IF slot = hpEnd(cap) THEN acc
    ELSE hpWalkFrom(cap, page, hpNext(cap, page, slot), Append(acc, slot))

hpWalk(cap, page) == hpWalkFrom(cap, page, hpBegin(cap, page), <<>>)

\* Bit 0x80 >> (i mod 8) of header byte i / 8.
BitOf(page, i) == (page.header[i \div 8] \div (2 ^ (7 - (i % 8)))) % 2

\* C14: after any sequence of insertTuple and deleteTuple calls on a heap
\* page, the slots visited from begin() by next() until end() (= capacity)
\* are exactly the slots whose bitmap bit is set, each once, in ascending
\* order; empty(slot) is true exactly for slots whose bit is clear or that
\* are >= capacity; next() applied to a slot >= capacity yields end().
C14_WalkIsBitmap ==
    LET walk == hpWalk(WideCapacity, hpage) IN
    /\ Range(walk) = {i \in WideSlots : BitOf(hpage, i) = 1}
    /\ \A j \in 1 .. (Len(walk) - 1) : walk[j] < walk[j + 1]
    /\ hpEnd(WideCapacity) = WideCapacity
    /\ \A slot \in 0 .. (WideCapacity + 1) :
          hpEmpty(WideCapacity, hpage, slot) <=>
             (slot >= WideCapacity \/ BitOf(hpage, slot) = 0)
    /\ \A slot \in WideCapacity .. (WideCapacity + 1) :
          hpNext(WideCapacity, hpage, slot) = WideCapacity

\* After inserts into all slots and deletes, slot 1 in the first header
\* byte and the last slot, in the second header byte, are the occupied ones.
C14_Witness ==
    /\ hpWalk(WideCapacity, hpage) = <<1, WideCapacity - 1>>
    /\ hpOut = "none"

\* The slots of the page whose bit is clear.
FreeSlots == {i \in WideSlots : BitOf(hpage, i) = 0}

C15_Inserted(t) ==
    IF FreeSlots = {}
    THEN /\ hpOut' = "false"
         /\ hpage' = hpage
    ELSE LET i == Min(FreeSlots) IN
         /\ hpOut' = "true"
         /\ hpage'.data = [hpage.data EXCEPT ![i] = t]
         /\ hpage'.header =
               [hpage.header EXCEPT ![i \div 8] = @ + 2 ^ (7 - (i % 8))]
         /\ \A j \in WideSlots :
               BitOf(hpage', j) = IF j = i THEN 1 ELSE BitOf(hpage, j)

C15_Deleted(slot) ==
    /\ hpOut' = "none"
    /\ hpage'.data[slot] = 0
    /\ BitOf(hpage', slot) = 0

\* C15: HeapPage.insertTuple writes the tuple into the lowest-numbered free
\* slot and sets only that slot's bit (bit 0x80 >> (i mod 8) of header byte
\* i/8), leaving every other slot's bytes and bit unchanged, and returns
\* true; it returns false, changing nothing, exactly when all slots are
\* occupied.  After deleteTuple(slot) the slot's bytes are zero and its bit
\* is clear, so every free slot that was ever deleted holds zero bytes and
\* every occupied slot holds the tuple last inserted there.
C15_SlotFrame ==
    /\ [](\A i \in WideSlots :
            /\ (BitOf(hpage, i) = 0 /\ hpLast[i].was = "deleted") =>
                  hpage.data[i] = 0
            /\ BitOf(hpage, i) = 1 =>
                  (hpLast[i].was = "inserted" /\ hpage.data[i] = hpLast[i].t))
    /\ [][/\ \A t \in TupleVals : HpInsertTuple(t) => C15_Inserted(t)
          /\ \A slot \in WideSlots :
                (BitOf(hpage, slot) = 1 /\ HpDeleteTuple(slot)) =>
                    C15_Deleted(slot)]_vars

\* An insert just refilled slot 0 while slot 1, deleted before, stays free
\* and the only other tuple is in a slot of the second header byte.
C15_Witness ==
    /\ hpOut = "true"
    /\ hpLast[0] = [was |-> "inserted", t |-> 1]
    /\ hpLast[1].was = "deleted"
    /\ hpage.header[0] = 128
    /\ hpage.header[1] = 128

(***************************************************************************)
(* A heap file that is inserted into, deleted from and read                *)
(***************************************************************************)
GetTuple(name, it) ==
    /\ ~ub
    /\ Install([hfGetTuple(St, name, it).s EXCEPT !.ret = NoFrame])
    /\ UNCHANGED <<useOrder, live, others>>

GetTupleStep ==
    \E name \in HeapFiles, p \in 0 .. MaxPage, sl \in 0 .. HeapCapacity :
        GetTuple(name, [page |-> p, slot |-> sl])

\* Another user of the pool touches one page of a file that is no heap file.
OtherGetOneStep == GetPage([file |-> "g", page |-> 0])

NextHD ==
    \/ InsertTupleStep
    \/ DeleteTupleStep
    \/ GetTupleStep
    \/ OtherGetOneStep

SpecHD == Init /\ [][NextHD]_vars

\* Every page a file of the runs can have.
AllPids == [file : FileNames, page : 0 .. (MaxPage - 1)]

\* The page is cached and its frame is dirty.
DirtyPage(pid) == pid \in DOMAIN pid_to_pos /\ pid_to_pos[pid] \in dirty

\* The iterator names an occupied slot of a page of the file.
Occupied(name, it) ==
    /\ it.page < numPages[name]
    /\ it.slot < HeapCapacity
    /\ BitSet(PageView([file |-> name, page |-> it.page]), it.slot)

\* Occupied slots of the file that the iteration visits before it.
Before(name, it) ==
    {q \in [page : 0 .. (MaxPage - 1), slot : Slots] :
        /\ Occupied(name, q)
        /\ q.page < it.page \/ (q.page = it.page /\ q.slot < it.slot)}

\* A sequence without its k-th element.
Without(seq, k) == SubSeq(seq, 1, k - 1) \o SubSeq(seq, k + 1, Len(seq))

C12_Deleted(name, it) ==
    /\ exc' = "none"
    /\ LET post == St' IN
          hfScan(post, name) =
             Without(hfScan(St, name), Cardinality(Before(name, it)) + 1)
    /\ numPages' = numPages
    /\ DirtyPage([file |-> name, page |-> it.page])'

C12_ContentsKept ==
    /\ exc' # "none"
    /\ numPages' = numPages
    /\ \A pid \in AllPids : PageView(pid)' = PageView(pid)

\* C12 as claimed: deleteTuple on an occupied (page, slot) removes exactly
\* that tuple (the iteration returns all others in unchanged relative order,
\* numPages is unchanged, the page is dirty); deleteTuple or getTuple with
\* it.page >= numPages, a slot >= capacity or an empty slot fails with an
\* error and leaves every page's contents and dirty status unchanged.
C12_DeleteExact ==
    [][\A name \in HeapFiles, it \in [page : 0 .. MaxPage, slot : 0 .. HeapCapacity] :
          /\ (Occupied(name, it) /\ DeleteTuple(name, it)) => C12_Deleted(name, it)
          /\ (~Occupied(name, it) /\ (DeleteTuple(name, it) \/ GetTuple(name, it))) =>
                /\ C12_ContentsKept
                /\ \A pid \in AllPids : DirtyPage(pid)' = DirtyPage(pid)]_vars

\* C12 as amended: the failing call leaves every page's contents unchanged
\* and makes no page dirty; a page that stops being dirty was written back
\* to its file by the eviction inside the call's getPage.
C12_DeleteExactOrEvict ==
    [][\A name \in HeapFiles, it \in [page : 0 .. MaxPage, slot : 0 .. HeapCapacity] :
          /\ (Occupied(name, it) /\ DeleteTuple(name, it)) => C12_Deleted(name, it)
          /\ (~Occupied(name, it) /\ (DeleteTuple(name, it) \/ GetTuple(name, it))) =>
                /\ C12_ContentsKept
                /\ \A pid \in AllPids :
                      /\ DirtyPage(pid)' => DirtyPage(pid)
                      /\ (DirtyPage(pid) /\ ~DirtyPage(pid)') =>
                            io'[1] = <<"write", pid.file, pid.page, PageView(pid)>>]_vars

\* A deleteTuple or getTuple of an empty slot just failed after its getPage
\* wrote back and evicted a dirty page; two tuples are in the file.
C12_Witness ==
    /\ exc = "logic_error"
    /\ numPages["f"] = 2
    /\ Len(io) = 2
    /\ io[1][1] = "write"
    /\ Len(hfScan(St, "f")) = HeapCapacity

(***************************************************************************)
(* A B+-tree file: construction under a schema, then inserts               *)
(***************************************************************************)
BtCreate(cap) ==
    /\ bt = <<>>
    /\ bt' = ensure_root_initialized
    /\ leafCap' = cap
    /\ UNCHANGED <<poolVars, useOrder, live, inserted, pageVars, latest, btEv,
                   unitVars>>

BtInsertTuple(t) ==
    /\ bt # <<>>
    /\ LET r == btInsertTuple(bt, leafCap, t) IN
       /\ Len(r.tree) <= MaxTreePages
       /\ bt' = r.tree
       /\ btEv' = r.ev
    /\ latest' = [latest EXCEPT ![t.key] = t.val]
    /\ UNCHANGED <<poolVars, useOrder, live, inserted, pageVars, leafCap,
                   unitVars>>

NextBT ==
    \/ \E cap \in 1 .. MaxLeafCap : BtCreate(cap)
    \/ \E t \in TreeTuples : BtInsertTuple(t)

SpecBT == Init /\ [][NextBT]_vars

\* The leaf pages below page id, the index pages from page id downwards.
RECURSIVE LeavesUnder(_, _)
LeavesUnder(tree, id) ==
    IF tree[id + 1].kind = "leaf" THEN {id}
    ELSE UNION {LeavesUnder(tree, tree[id + 1].children[c]) :
                    c \in 1 .. Len(tree[id + 1].children)}

RECURSIVE IndexUnder(_, _)
IndexUnder(tree, id) ==
    IF tree[id + 1].kind = "leaf" THEN {}
    ELSE {id} \cup UNION {IndexUnder(tree, tree[id + 1].children[c]) :
                             c \in 1 .. Len(tree[id + 1].children)}

\* The keys stored in a leaf, and in all leaves below a page.
KeysIn(tree, id) ==
    {tree[id + 1].tuples[i].key : i \in 1 .. Len(tree[id + 1].tuples)}

KeysUnder(tree, id) == UNION {KeysIn(tree, l) : l \in LeavesUnder(tree, id)}

\* The depths below page id at which leaves are found, id being at depth d.
RECURSIVE LeafDepths(_, _, _)
LeafDepths(tree, id, d) ==
    IF tree[id + 1].kind = "leaf" THEN {d}
    ELSE UNION {LeafDepths(tree, tree[id + 1].children[c], d + 1) :
                    c \in 1 .. Len(tree[id + 1].children)}

\* C16: for any sequence of insertTuple calls on a B+-tree file, a scan from
\* begin() via next() to end() yields tuples in strictly increasing key
\* order, contains exactly the distinct keys inserted, and for each key
\* returns the tuple most recently inserted with that key; in particular
\* the tuple that triggered a leaf split is present after the insert.
C16_ScanLatest ==
    bt # <<>> =>
        LET scan == btScan(bt) IN
        /\ \A i \in 1 .. (Len(scan) - 1) : scan[i].key < scan[i + 1].key
        /\ {scan[i].key : i \in 1 .. Len(scan)} =
              {k \in Keys : latest[k] # NoVal}
        /\ \A i \in 1 .. Len(scan) : scan[i].val = latest[scan[i].key]

\* C17: after every completed insertTuple, every index page reachable from
\* the root has strictly ascending keys, every key under children[i] is
\* < keys[i] and every key under children[i+1] is >= keys[i]; descending
\* with choose_child_slot for a key in the tree ends at the leaf holding it.
C17_Separators ==
    bt # <<>> =>
        /\ \A id \in IndexUnder(bt, root_id) :
              LET ip == bt[id + 1] IN
              /\ \A i \in 1 .. (Len(ip.keys) - 1) : ip.keys[i] < ip.keys[i + 1]
              /\ \A i \in 1 .. Len(ip.keys) :
                    /\ \A k \in KeysUnder(bt, ip.children[i]) : k < ip.keys[i]
                    /\ \A k \in KeysUnder(bt, ip.children[i + 1]) :
                          k >= ip.keys[i]
        /\ \A l \in LeavesUnder(bt, root_id) :
              \A k \in KeysIn(bt, l) : descend_path(bt, k).leaf = l

\* The depth of the leaves of a tree all of whose leaves are equally deep.
Depth(tree) == CHOOSE d \in LeafDepths(tree, root_id, 0) : TRUE

\* C18: in every state after construction and after every completed
\* insertTuple, the root is page 0 and is an index page, and all leaves are
\* at the same depth below it; the depth changes only through a root
\* rebuild, which increases it by exactly one.
C18_RootAndDepth ==
    /\ [](bt # <<>> =>
            /\ bt[root_id + 1].kind = "index"
            /\ LeavesUnder(bt, root_id) \cup IndexUnder(bt, root_id) =
                  0 .. (Len(bt) - 1)
            /\ Cardinality(LeafDepths(bt, root_id, 0)) = 1)
    /\ [][bt # <<>> =>
            LET post == bt' IN
            Depth(post) = Depth(bt) + (IF btEv'.rebuilt THEN 1 ELSE 0)]_vars

\* An insert just split a leaf and the index page above it and rebuilt the
\* root for the second time: the leaves are three levels below page 0.
C18_Witness ==
    /\ bt # <<>>
    /\ leafCap = 2
    /\ btEv.splits = 3
    /\ btEv.rebuilt
    /\ LeafDepths(bt, root_id, 0) = {3}

\* C19: after every completed insertTuple, following next_leaf from the
\* leftmost leaf visits every leaf of the tree exactly once, in ascending
\* key order, and reaches the absent sentinel after at most numPages hops.
C19_LeafChain ==
    bt # <<>> =>
        LET chain == btChain(bt) IN
        /\ Range(chain) = LeavesUnder(bt, root_id)
        /\ Len(chain) = Cardinality(Range(chain))
        /\ Len(chain) <= Len(bt)
        /\ bt[chain[Len(chain)] + 1].next_leaf = Absent
        /\ \A i \in 1 .. (Len(chain) - 1) :
              \A a \in KeysIn(bt, chain[i]), b \in KeysIn(bt, chain[i + 1]) :
                  a < b

\* C20: whenever insertion inserts a separator into an index page, that key
\* is not already among the page's keys, so no index page ever holds a
\* duplicate key, for every leaf capacity (including 1) and insertion order.
C20_FreshSeparator ==
    /\ ~btEv.dup
    /\ bt # <<>> =>
          \A id \in IndexUnder(bt, root_id) :
              \A i, j \in 1 .. Len(bt[id + 1].keys) :
                  i # j => bt[id + 1].keys[i] # bt[id + 1].keys[j]

\* The tuples stored in the leaves below a page.
TuplesUnder(tree, id) ==
    UNION {Range(tree[l + 1].tuples) : l \in LeavesUnder(tree, id)}

\* An index page's flag says what its children are.
FlagMatches(tree, id) ==
    \A c \in 1 .. Len(tree[id + 1].children) :
        tree[tree[id + 1].children[c] + 1].kind =
            (IF tree[id + 1].index_children = 1 THEN "index" ELSE "leaf")

\* What a root rebuild leaves behind, pre being the tree before the insert
\* of t and post the tree after it: L and R are pages allocated by this
\* insert, L holds the left half of the former root, page 0 has the one key
\* that separates L from R, and no tuple other than t came or went.
C21_Rebuilt(pre, post, t) ==
    LET root == post[root_id + 1]
        L    == root.children[1]
        R    == root.children[2]
    IN  /\ root.kind = "index"
        /\ root.index_children = 1
        /\ Len(root.keys) = 1
        /\ Len(root.children) = 2
        /\ L = Len(post) - 1
        /\ R = Len(post) - 2
        /\ R >= Len(pre)
        /\ post[L + 1].kind = "index"
        /\ post[R + 1].kind = "index"
        /\ post[L + 1].index_children = pre[root_id + 1].index_children
        /\ post[R + 1].index_children = pre[root_id + 1].index_children
        /\ post[L + 1].children[1] = pre[root_id + 1].children[1]
        /\ Len(post[L + 1].keys) + 1 + Len(post[R + 1].keys) =
              Len(pre[root_id + 1].keys) + 1
        /\ Range(pre[root_id + 1].keys) \subseteq
              Range(post[L + 1].keys \o root.keys \o post[R + 1].keys)
        /\ TuplesUnder(post, root_id) \ {t} = TuplesUnder(pre, root_id) \ {t}

\* C21: a root rebuild copies the former root to a newly allocated page L
\* and leaves page 0 as an index page with size 1, keys[0] = up_key,
\* children[0] = L, children[1] = the new right sibling and index_children
\* = 1, without changing the tuples in the tree; after every completed
\* insertTuple each index page's index_children is 1 exactly when its
\* children are index pages and 0 exactly when they are leaf pages.
C21_RootRebuild ==
    /\ [](bt # <<>> =>
            \A id \in IndexUnder(bt, root_id) :
                /\ bt[id + 1].index_children \in {0, 1}
                /\ FlagMatches(bt, id))
    /\ [][\A t \in TreeTuples :
            (btEv'.rebuilt /\ bt # <<>> /\ BtInsertTuple(t)) =>
                LET post == bt' IN C21_Rebuilt(bt, post, t)]_vars

\* The root was just rebuilt for the second time, over index pages.
C21_Witness ==
    /\ bt # <<>>
    /\ btEv.rebuilt
    /\ leafCap = 2
    /\ bt[bt[root_id + 1].children[1] + 1].index_children = 1

\* C26: after every completed insertTuple every index page, the root
\* included, has size < capacity, since an index page is split in the
\* insertTuple in which IndexPage::insert fills it; so IndexPage::insert is
\* never called on a page with size >= capacity.
C26_IndexNeverFull ==
    /\ ~btEv.overfull
    /\ bt # <<>> =>
          \A id \in 0 .. (Len(bt) - 1) :
              bt[id + 1].kind = "index" => Len(bt[id + 1].keys) < IndexCapacity

\* An insert filled an index page below the root and then the root, and
\* split both: the root is left with one key.
C26_Witness ==
    /\ bt # <<>>
    /\ leafCap = 2
    /\ btEv.splits = 3
    /\ btEv.rebuilt
    /\ Len(bt[root_id + 1].keys) = 1
    /\ 1 < IndexCapacity

(***************************************************************************)
(* A LeafPage on its own: insertTuple, split, and the caller's writes of    *)
(* next_leaf                                                               *)
(***************************************************************************)
LpCreate(cap) ==
    /\ lpCap = 0
    /\ lpCap' = cap
    /\ UNCHANGED <<poolVars, useOrder, live, inserted, pageVars, treeVars,
                   lpage, lpNew, lpOut, indexVars,
                   layoutVars, codec, twin>>

LpInsertTuple(t) ==
    /\ lpCap > 0
    /\ LET r == lpInsertTuple(lpCap, lpage, t) IN
          /\ lpage' = r.page
          /\ lpOut' = [NoLeafCall EXCEPT !.op = "insertTuple", !.full = r.full]
    /\ UNCHANGED <<poolVars, useOrder, live, inserted, pageVars, treeVars,
                   lpNew, lpCap, indexVars,
                   layoutVars, codec, twin>>

LpSplit ==
    /\ lpCap > 0
    /\ LET sp == lpSplit(lpage, lpNew) IN
          /\ lpage' = sp.page
          /\ lpNew' = sp.new_page
          /\ lpOut' = [NoLeafCall EXCEPT !.op = "split", !.key = sp.split_key,
                                         !.exc = sp.exc]
    /\ UNCHANGED <<poolVars, useOrder, live, inserted, pageVars, treeVars,
                   lpCap, indexVars,
                   layoutVars, codec, twin>>

\* The owner of the page writes header->next_leaf.
LpSetNext(id) ==
    /\ lpCap > 0
    /\ lpage' = [lpage EXCEPT !.next_leaf = id]
    /\ UNCHANGED <<poolVars, useOrder, live, inserted, pageVars, treeVars,
                   lpNew, lpCap, lpOut, indexVars,
                   layoutVars, codec, twin>>

NextLP ==
    \/ \E cap \in 1 .. MaxPageCap : LpCreate(cap)
    \/ \E t \in TreeTuples : LpInsertTuple(t)
    \/ LpSplit
    \/ \E id \in {1, Absent} : LpSetNext(id)

SpecLP == Init /\ [][NextLP]_vars

\* The keys of a sequence of tuples, in order.
KeysOf(tuples) == [i \in 1 .. Len(tuples) |-> tuples[i].key]

StrictlyAscending(keys) ==
    \A i \in 1 .. (Len(keys) - 1) : keys[i] < keys[i + 1]

\* What one insertTuple(t) does to the tuples pre of a page of cap tuples,
\* giving post: overwrite in place, nothing, or one more tuple.
C22_Case(cap, pre, post, t) ==
    IF t.key \in Range(KeysOf(pre))
    THEN /\ Len(post) = Len(pre)
         /\ \A i \in 1 .. Len(pre) :
               post[i] = (IF pre[i].key = t.key THEN t ELSE pre[i])
    ELSE IF Len(pre) = cap
    THEN post = pre
    ELSE /\ Len(post) = Len(pre) + 1
         /\ t \in Range(post)
         /\ SelectSeq(post, LAMBDA x : x # t) = pre

\* C22: after any sequence of LeafPage::insertTuple calls the tuples of a
\* leaf page are in strictly ascending key order and size <= capacity; a
\* call overwrites the tuple with the same key in place (size unchanged),
\* or changes nothing when the key is absent and size = capacity, or puts
\* the tuple at its sorted position (size + 1, the others kept in order);
\* it returns true exactly when size = capacity after the call.
C22_LeafInsert ==
    /\ [](/\ StrictlyAscending(KeysOf(lpage.tuples))
          /\ lpCap > 0 => Len(lpage.tuples) <= lpCap)
    /\ [][\A t \in TreeTuples :
            LpInsertTuple(t) =>
                LET post == lpage' IN
                /\ C22_Case(lpCap, lpage.tuples, post.tuples, t)
                /\ post.next_leaf = lpage.next_leaf
                /\ lpOut'.full = (Len(post.tuples) = lpCap)]_vars

\* The last call put a tuple between two others and filled the page.
C22_Witness ==
    /\ lpOut.op = "insertTuple"
    /\ lpOut.full
    /\ lpCap = 3
    /\ KeysOf(lpage.tuples) = <<0, 1, 2>>
    /\ lpage.tuples[2].val = 1
    /\ lpage.tuples[1].val = 0

\* C23: LeafPage::split on a leaf of n > 0 tuples leaves the first
\* floor(n/2) tuples in the page and moves the others in order to new_page
\* from slot 0, sets new_page.next_leaf to the page's next_leaf and leaves
\* the page's next_leaf unchanged, and returns the key of new_page's first
\* tuple, greater than every key left in the page; on a leaf of 0 tuples it
\* fails with an error and changes neither page.
C23_LeafSplit ==
    [][LpSplit =>
        LET n     == Len(lpage.tuples)
            left  == lpage'
            right == lpNew'
        IN  IF n = 0
            THEN /\ lpOut'.exc = "logic_error"
                 /\ left = lpage
                 /\ right = lpNew
            ELSE /\ lpOut'.exc = "none"
                 /\ Len(left.tuples) = n \div 2
                 /\ Len(right.tuples) = n - (n \div 2)
                 /\ left.tuples \o right.tuples = lpage.tuples
                 /\ right.next_leaf = lpage.next_leaf
                 /\ left.next_leaf = lpage.next_leaf
                 /\ lpOut'.key = right.tuples[1].key
                 /\ \A i \in 1 .. Len(left.tuples) :
                       left.tuples[i].key < lpOut'.key]_vars

\* A leaf of three tuples linked to page 1 was split into one and two.
C23_Witness ==
    /\ lpOut.op = "split"
    /\ lpOut.exc = "none"
    /\ Len(lpage.tuples) = 1
    /\ Len(lpNew.tuples) = 2
    /\ lpage.next_leaf = 1
    /\ lpNew.next_leaf = 1
    /\ lpOut.key = lpNew.tuples[1].key

(***************************************************************************)
(* An IndexPage on its own: insert, split, and the caller's writes of       *)
(* index_children                                                          *)
(***************************************************************************)
IpCreate(cap) ==
    /\ ipCap = 0
    /\ ipCap' = cap
    /\ UNCHANGED <<poolVars, useOrder, live, inserted, pageVars, treeVars,
                   leafVars, ipage, ipNew, ipOut,
                   layoutVars, codec, twin>>

IpInsert(key, child) ==
    /\ ipCap > 0
    /\ LET r == ipInsert(ipCap, ipage, key, child) IN
          /\ ipage' = r.page
          /\ ipOut' = [NoIndexCall EXCEPT !.op = "insert", !.full = r.full]
    /\ UNCHANGED <<poolVars, useOrder, live, inserted, pageVars, treeVars,
                   leafVars, ipNew, ipCap,
                   layoutVars, codec, twin>>

\* split is only called on a page that holds a key.
IpSplit ==
    /\ ipCap > 0
    /\ Len(ipage.keys) > 0
    /\ LET sp == ipSplit(ipage, ipNew) IN
          /\ ipage' = sp.page
          /\ ipNew' = sp.new_page
          /\ ipOut' = [NoIndexCall EXCEPT !.op = "split", !.key = sp.up_key]
    /\ UNCHANGED <<poolVars, useOrder, live, inserted, pageVars, treeVars,
                   leafVars, ipCap,
                   layoutVars, codec, twin>>

\* The owner of the page writes header->index_children.
IpSetFlag(flag) ==
    /\ ipCap > 0
    /\ ipage' = [ipage EXCEPT !.index_children = flag]
    /\ UNCHANGED <<poolVars, useOrder, live, inserted, pageVars, treeVars,
                   leafVars, ipNew, ipCap, ipOut,
                   layoutVars, codec, twin>>

NextIP ==
    \/ \E cap \in 1 .. MaxPageCap : IpCreate(cap)
    \/ \E key \in Keys, child \in 0 .. MaxChild : IpInsert(key, child)
    \/ IpSplit
    \/ \E flag \in {0, 1} : IpSetFlag(flag)

SpecIP == Init /\ [][NextIP]_vars

\* A sequence without its element at position k.
DropAt(seq, k) == SubSeq(seq, 1, k - 1) \o SubSeq(seq, k + 1, Len(seq))

\* C24: IndexPage::insert(key, child) on a page of n < capacity strictly
\* ascending keys that do not contain key places key at the first position
\* pos with keys[pos] >= key (pos = n at the right edge) and child at
\* children[pos+1], keeps children[0..pos], shifts the later keys and
\* children right by one in order, leaves the keys strictly ascending with
\* size n + 1, and returns true iff n + 1 = capacity.
C24_IndexInsert ==
    [][\A key \in Keys, child \in 0 .. MaxChild :
        (/\ Len(ipage.keys) < ipCap
         /\ StrictlyAscending(ipage.keys)
         /\ key \notin Range(ipage.keys)
         /\ IpInsert(key, child)) =>
            LET n    == Len(ipage.keys)
                pos  == Cardinality({i \in 1 .. n : ipage.keys[i] < key})
                post == ipage'
            IN  /\ Len(post.keys) = n + 1
                /\ Len(post.children) = n + 2
                /\ post.keys[pos + 1] = key
                /\ post.children[pos + 2] = child
                /\ DropAt(post.keys, pos + 1) = ipage.keys
                /\ DropAt(post.children, pos + 2) = ipage.children
                /\ StrictlyAscending(post.keys)
                /\ post.index_children = ipage.index_children
                /\ ipOut'.full = (n + 1 = ipCap)]_vars

\* A key was put between two others and its child between theirs, which
\* filled the page.
C24_Witness ==
    /\ ipOut.op = "insert"
    /\ ipOut.full
    /\ ipCap = 3
    /\ ipage.keys = <<0, 1, 2>>
    /\ ipage.children = <<0, 1, 2, 1>>

\* C25: IndexPage::split on a page of n >= 1 keys returns keys[floor(n/2)],
\* which afterwards is in neither page; the page keeps keys[0..mid) and
\* children[0..mid], new_page gets keys[mid+1..n) and children[mid+1..n] in
\* order with the same index_children; the sizes sum to n - 1, the child
\* lists together are the original n + 1 children, every key left in the
\* page is < the returned key and every key in new_page is > it.
C25_IndexSplit ==
    [][IpSplit =>
        LET n     == Len(ipage.keys)
            mid   == n \div 2
            left  == ipage'
            right == ipNew'
            up    == ipOut'.key
        IN  /\ up = ipage.keys[mid + 1]
            /\ up \notin Range(left.keys)
            /\ up \notin Range(right.keys)
            /\ left.keys \o <<up>> \o right.keys = ipage.keys
            /\ Len(left.keys) = mid
            /\ Len(left.keys) + Len(right.keys) = n - 1
            /\ left.children \o right.children = ipage.children
            /\ Len(left.children) = mid + 1
            /\ right.index_children = ipage.index_children
            /\ left.index_children = ipage.index_children
            /\ \A i \in 1 .. Len(left.keys) : left.keys[i] < up
            /\ \A i \in 1 .. Len(right.keys) : right.keys[i] > up]_vars

(***************************************************************************)
(* The page layouts for every tuple length                                 *)
(***************************************************************************)
\* The three page constructors over a page, for a schema of length T.
Construct(T) ==
    /\ tlen = 0
    /\ tlen' = T
    /\ extent' = [heap |-> heapLayout(T), leaf |-> leafLayout(T),
                  index |-> indexLayout]
    /\ UNCHANGED <<poolVars, useOrder, live, inserted, pageVars, treeVars,
                   leafVars, indexVars, codec, twin>>

NextLY == \E T \in 1 .. DEFAULT_PAGE_SIZE : Construct(T)

SpecLY == Init /\ [][NextLY]_vars

\* C27: every page layout fits inside one page: for every tuple width T in
\* 1 .. PAGE_SIZE the heap page satisfies ceil(capacity/8) + capacity*T <=
\* PAGE_SIZE with capacity = floor(8*PAGE_SIZE / (8*T + 1)), the leaf page
\* sizeof(LeafPageHeader) + capacity*T <= PAGE_SIZE, the index page
\* sizeof(IndexPageHeader) + capacity*4 + (capacity+1)*sizeof(child) <=
\* PAGE_SIZE; no slot, key or child index within capacity addresses a byte
\* outside the page, the shifts of an insert that fills the page included.
C27_LayoutsFit ==
    tlen > 0 =>
        LET T == tlen
            P == DEFAULT_PAGE_SIZE
            h == extent.heap
            l == extent.leaf
            x == extent.index
        IN  /\ h.capacity = (8 * P) \div (8 * T + 1)
            /\ (h.capacity + 7) \div 8 + h.capacity * T <= P
            /\ h.end <= P
            /\ \A i \in 0 .. (h.capacity - 1) :
                  /\ i \div 8 < h.data
                  /\ h.data + (i + 1) * T <= P
            /\ 16 + l.capacity * T <= P
            /\ l.end <= P
            /\ \A n \in 0 .. (l.capacity - 1) : l.data + (n + 1) * T <= P
            /\ 4 + x.capacity * 4 + (x.capacity + 1) * 8 <= P
            /\ x.end <= P
            /\ x.keys + x.capacity * 4 <= x.children
            /\ \A n \in 0 .. (x.capacity - 1) :
                  /\ x.keys + (n + 1) * 4 <= x.children
                  /\ x.children + (n + 2) * 8 <= P

\* The layouts of the schema {INT, CHAR[64]} of 68 bytes: 60 heap slots,
\* 60 leaf tuples, 340 index keys.
C27_Witness ==
    /\ tlen = 68
    /\ extent.heap.capacity = 60
    /\ extent.leaf.capacity = 60
    /\ extent.index.capacity = 340

(***************************************************************************)
(* TupleDesc::serialize into a buffer of garbage, then deserialize         *)
(***************************************************************************)
CodecTypes == {"INT", "DOUBLE", "CHAR"}

\* Schemas of one or two columns.
Schemas == {<<a>> : a \in CodecTypes} \cup {<<a, b>> : a, b \in CodecTypes}

\* Strings of up to CHAR_SIZE + 1 characters, NUL and 'a'.
Strings == UNION {[1 .. n -> {0, 97}] : n \in 0 .. (CHAR_SIZE + 1)}

\* Field values: ints of one and two bytes and a negative one, the doubles
\* 0.0 and 1.0, the strings.
CodecFields ==
    {[type |-> "INT", v |-> <<i>>] : i \in {0 - 1, 0, 258}}
        \cup {[type |-> "DOUBLE", v |-> d] :
                 d \in {Zeros(DOUBLE_SIZE), <<0, 0, 0, 0, 0, 0, 240, 63>>}}
        \cup {[type |-> "CHAR", v |-> str] : str \in Strings}

CodecTuples ==
    {<<>>} \cup {<<f>> : f \in CodecFields}
           \cup {<<f, g>> : f, g \in CodecFields}

\* The buffer before the call: td.length() bytes and one more, all 0xFF.
Garbage(td) == [k \in 1 .. (tdLength(td) + 1) |-> 255]

Serialize(td, t) ==
    /\ codec.op = "none"
    /\ LET r == tdSerialize(td, Garbage(td), t) IN
          codec' = [op |-> "serialize", td |-> td, t |-> t, exc |-> r.exc,
                    before |-> Garbage(td), data |-> r.data,
                    written |-> r.written, back |-> <<>>]
    /\ UNCHANGED <<poolVars, useOrder, live, inserted, pageVars, treeVars,
                   leafVars, indexVars, layoutVars, twin>>

\* deserialize of the bytes the last serialize wrote.
Deserialize ==
    /\ codec.op = "serialize"
    /\ codec.exc = "none"
    /\ codec' = [codec EXCEPT !.op = "deserialize",
                              !.back = deserialize(codec.td, codec.data)]
    /\ UNCHANGED <<poolVars, useOrder, live, inserted, pageVars, treeVars,
                   leafVars, indexVars, layoutVars, twin>>

NextSD ==
    \/ \E td \in Schemas, t \in CodecTuples : Serialize(td, t)
    \/ Deserialize

SpecSD == Init /\ [][NextSD]_vars

\* The tuple has another number of fields than the schema or a field of
\* another type.
Incompatible(td, t) ==
    \/ Len(t) # Len(td)
    \/ \E i \in 1 .. Len(td) : t[i].type # td[i]

\* A string cut to CHAR_SIZE characters, and cut further at its first NUL.
Trunc(str) ==
    SubSeq(str, 1, IF Len(str) > CHAR_SIZE THEN CHAR_SIZE ELSE Len(str))

CutAtNul(str) ==
    LET nuls == {i \in 1 .. Len(Trunc(str)) : str[i] = 0}
    IN  IF nuls = {} THEN Trunc(str) ELSE SubSeq(str, 1, Min(nuls) - 1)

\* What serialize leaves: nothing on an incompatible tuple, else exactly
\* td.length() bytes, each field at its offset, CHAR null-padded.
C28_Written ==
    codec.op # "none" =>
        IF Incompatible(codec.td, codec.t)
        THEN /\ codec.exc = "logic_error"
             /\ codec.data = codec.before
             /\ codec.written = {}
        ELSE /\ codec.exc = "none"
             /\ codec.written = 0 .. (tdLength(codec.td) - 1)
             /\ Len(codec.data) = Len(codec.before)
             /\ codec.data[tdLength(codec.td) + 1] = 255
             /\ \A i \in 1 .. Len(codec.td) :
                   LET off == offset_of(codec.td, i)
                       f   == codec.t[i]
                   IN  IF f.type = "CHAR"
                       THEN /\ \A k \in 1 .. CHAR_SIZE :
                                 codec.data[off + k] =
                                     (IF k <= Len(f.v) THEN f.v[k] ELSE 0)
                       ELSE IF f.type = "DOUBLE"
                       THEN SubSeq(codec.data, off + 1, off + DOUBLE_SIZE) = f.v
                       ELSE BytesToInt(SubSeq(codec.data, off + 1,
                                              off + INT_SIZE)) = f.v[1]

\* C28: for every tuple t compatible with td, deserialize of the bytes
\* written by serialize(t) returns a tuple equal to t, a CHAR field longer
\* than CHAR_SIZE coming back cut to its first CHAR_SIZE characters;
\* serialize writes exactly td.length() bytes (each field at its offset,
\* CHAR null-padded) and fails without writing on an incompatible tuple.
C28_RoundTrip ==
    /\ C28_Written
    /\ codec.op = "deserialize" =>
          codec.back = [i \in 1 .. Len(codec.t) |->
                           IF codec.t[i].type = "CHAR"
                           THEN [codec.t[i] EXCEPT !.v = Trunc(@)]
                           ELSE codec.t[i]]

\* C28 amended: as C28, a CHAR field coming back cut to its first CHAR_SIZE
\* characters and, if a NUL is among them, to the characters before the
\* first NUL.
C28_RoundTripNul ==
    /\ C28_Written
    /\ codec.op = "deserialize" =>
          codec.back = [i \in 1 .. Len(codec.t) |->
                           IF codec.t[i].type = "CHAR"
                           THEN [codec.t[i] EXCEPT !.v = CutAtNul(@)]
                           ELSE codec.t[i]]

\* An INT of two bytes and a string of CHAR_SIZE + 1 characters without
\* NUL came back, the string cut to CHAR_SIZE.
C28_Witness ==
    /\ codec.op = "deserialize"
    /\ codec.td = <<"INT", "CHAR">>
    /\ codec.t[1].v = <<258>>
    /\ Len(codec.t[2].v) = CHAR_SIZE + 1
    /\ 0 \notin Range(codec.t[2].v)
    /\ codec.back[1].v = <<258>>
    /\ Len(codec.back[2].v) = CHAR_SIZE

\* C29: a getPage(pid) that fails (pid.file is not registered, or readPage
\* or the eviction write-back raises) leaves the buffer pool consistent: no
\* frame is lost ((resident frames) + (free frames) = N still holds), pid
\* is not reported as contained, and a later getPage can still use every
\* frame.
C29_FailedGetPage ==
    /\ [](~ub)
    /\ [][\A pid \in PageIds :
            (exc' # "none" /\ GetPage(pid)) =>
                /\ pid \notin DOMAIN pid_to_pos'
                /\ Cardinality(DOMAIN pid_to_pos') + Len(available') =
                      DEFAULT_NUM_PAGES]_vars

\* The cached pages that are dirty.
DirtyPids == {pid \in DOMAIN pid_to_pos : pid_to_pos[pid] \in dirty}

\* C30: no dirty data is silently dropped. In every step, a page that was
\* dirty and is no longer dirty, or no longer resident, afterwards has had its
\* contents written to its file by a writePage that completed in that step,
\* unless the step is an explicit discardPage of that page; this covers the
\* eviction in getPage, flushPage, flushFile, Database.remove / add and the
\* calls that end with an exception.
C30_NoSilentDrop ==
    [][\A pid \in DirtyPids :
          LET pos == pid_to_pos[pid] IN
          (\/ pid \notin DOMAIN pid_to_pos'
           \/ pid_to_pos'[pid] \notin dirty') =>
              \/ <<"write", pid.file, pid.page, pages[pos]>> \in Range(io')
              \/ DiscardPage(pid)]_vars

(***************************************************************************)
(* Heap-file calls applied to both pools of the pair                       *)
(***************************************************************************)
\* The pool as a call finds it, and as it leaves it: the audit of the call
\* and the page reference it held end with the call.
Entering(s) == [s EXCEPT !.io = <<>>, !.exc = "none"]

Leaving(s) == [s EXCEPT !.io = <<>>, !.exc = "none", !.ret = NoFrame]

twinRest == <<poolVars, useOrder, live, inserted, pageVars, treeVars,
              leafVars, indexVars, layoutVars, codec>>

TwInsertTuple(name, t) ==
    LET a == hfInsertTuple(Entering(twin.one), name, t)
        b == hfInsertTuple(Entering(twin.big), name, t)
    IN  /\ a.numPages[name] <= TwinMaxPage[name]
        /\ b.numPages[name] <= TwinMaxPage[name]
        /\ twin' = [one |-> Leaving(a), big |-> Leaving(b), op |-> "insertTuple",
                    diff |-> Differ([exc |-> a.exc, val |-> <<>>],
                                   [exc |-> b.exc, val |-> <<>>])]
        /\ UNCHANGED twinRest

TwDeleteTuple(name, it) ==
    LET a == hfDeleteTuple(Entering(twin.one), name, it)
        b == hfDeleteTuple(Entering(twin.big), name, it)
    IN  /\ twin' = [one |-> Leaving(a), big |-> Leaving(b), op |-> "deleteTuple",
                    diff |-> Differ([exc |-> a.exc, val |-> <<>>],
                                   [exc |-> b.exc, val |-> <<>>])]
        /\ UNCHANGED twinRest

TwGetTuple(name, it) ==
    LET a == hfGetTuple(Entering(twin.one), name, it)
        b == hfGetTuple(Entering(twin.big), name, it)
    IN  /\ twin' = [one |-> Leaving(a.s), big |-> Leaving(b.s), op |-> "getTuple",
                    diff |-> Differ([exc |-> a.s.exc, val |-> <<a.t>>],
                                   [exc |-> b.s.exc, val |-> <<b.t>>])]
        /\ UNCHANGED twinRest

TwBegin(name) ==
    LET a == hfBegin(Entering(twin.one), name)
        b == hfBegin(Entering(twin.big), name)
    IN  /\ twin' = [one |-> Leaving(a.s), big |-> Leaving(b.s), op |-> "begin",
                    diff |-> Differ([exc |-> a.s.exc, val |-> <<a.it.page, a.it.slot>>],
                                   [exc |-> b.s.exc, val |-> <<b.it.page, b.it.slot>>])]
        /\ UNCHANGED twinRest

TwNext(name, it) ==
    LET a == hfNext(Entering(twin.one), name, it)
        b == hfNext(Entering(twin.big), name, it)
    IN  /\ twin' = [one |-> Leaving(a.s), big |-> Leaving(b.s), op |-> "next",
                    diff |-> Differ([exc |-> a.s.exc, val |-> <<a.it.page, a.it.slot>>],
                                   [exc |-> b.s.exc, val |-> <<b.it.page, b.it.slot>>])]
        /\ UNCHANGED twinRest

\* The tuple the callers insert: one whose bytes are not those of a zeroed
\* page.
TwinTuples == {MaxTuple}

\* Iterators a caller can hold: every page up to end(), every slot up to end().
TwinIters == [page : 0 .. MaxPage, slot : 0 .. HeapCapacity]

NextTW ==
    \/ \E name \in FileNames, t \in TwinTuples : TwInsertTuple(name, t)
    \/ \E name \in FileNames, it \in TwinIters : TwDeleteTuple(name, it)
    \/ \E name \in FileNames, it \in TwinIters : TwGetTuple(name, it)
    \/ \E name \in FileNames : TwBegin(name)
    \/ \E name \in FileNames, it \in TwinIters : TwNext(name, it)

SpecTW == Init /\ [][NextTW]_vars

\* C31: the observable results of heap files do not depend on the capacity
\* of the buffer pool. For every interleaving of insertTuple, deleteTuple,
\* getTuple, begin and next on two heap files that share one pool, each call
\* over a pool of one frame ends and returns as it does over a pool that
\* never evicts, and numPages of each file is the same over the two pools.
C31_CapacityIndependent ==
    /\ twin.diff = {}
    /\ twin.one.numPages = twin.big.numPages
    /\ ~twin.one.ub /\ ~twin.big.ub
    /\ \A name \in FileNames : twin.big.disk[name] = <<>>

\* next() has just moved on to the last page of the larger file: the pool of
\* one frame holds that page alone, has written the earlier pages of both
\* files back on eviction, and the large pool has written nothing.
C31_Witness ==
    /\ twin.op = "next"
    /\ twin.one.numPages = TwinMaxPage
    /\ DOMAIN twin.one.pid_to_pos = {[file |-> "f", page |-> MaxPage - 1]}
    /\ Len(twin.one.disk["f"]) >= 1
    /\ twin.one.disk["f"][1].data[0] = MaxTuple
    /\ Len(twin.one.disk["g"]) = 1
    /\ twin.one.disk["g"][1].data[0] = MaxTuple
    /\ twin.big.disk = [name \in FileNames |-> <<>>]
====
